---- MODULE Spec2Model ----
(***************************************************************************)
(* A model of opencode-ralph's orchestration core (internal/ralph):        *)
(* the lock manager (acquireLock / readLockPID / isProcessRunning /        *)
(* releaseLock), the signal handler (installLockSignalHandler) and the     *)
(* iteration loop (runIterationsWithRunner) with its rate limiter.         *)
(*                                                                         *)
(* Every process p is an operating-system process running the binary in    *)
(* the same working directory; its process identifier is p itself.  The    *)
(* files .ralph/lock, .ralph/state.json and .ralph/notes.md are shared.    *)
(***************************************************************************)
EXTENDS Integers, Sequences, FiniteSets, TLC

\* ------------------------------------------------------------------ bounds
NProcs == 2            \* processes of this user that may run the binary

Procs == 1..NProcs
StalePid == NProcs + 1    \* a pid that names no running process (ESRCH)
ForeignPid == NProcs + 2  \* a running process of another user (EPERM)
OtherErrPid == NProcs + 3 \* a pid the probe answers with another errno

\* ------------------------------------------------------------- file system
\* The file .ralph/lock names.  kind "absent": no such file; "empty": created
\* but nothing written yet; "text": content fmt.Fscan cannot read as an
\* integer; "int": a decimal integer followed by a newline.  ino tells files
\* apart: it is the process whose acquireLock created the file, and 0 for a
\* file that was there before any process of Procs started.
Absent == [kind |-> "absent", pid |-> 0, ino |-> 0]
EmptyFile == [kind |-> "empty", pid |-> 0, ino |-> 0]
Garbage == [kind |-> "text", pid |-> 0, ino |-> 0]
PidFile(n) == [kind |-> "int", pid |-> n, ino |-> 0]
\* the file process p creates, before and after it wrote its pid
Created(p) == [kind |-> "empty", pid |-> 0, ino |-> p]
Written(p) == [kind |-> "int", pid |-> p, ino |-> p]

VARIABLES
    lock,       \* the file .ralph/lock names
    lock0,      \* the file .ralph/lock named in the initial state (history)
    alive,      \* the processes of Procs that are running
    pc,         \* pc[p]: position of p's main goroutine
    attempts,   \* attempts[p]: acquireLock's loop counter
    pid,        \* pid[p]: acquireLock's local pid, read from the lock file
    locked,     \* locked[p]: acquireLock's first result
    acqErr,     \* acqErr[p]: acquireLock's error ("nil" for none)
    notify,     \* notify[p]: channel c is registered with signal.Notify
    sigchan,    \* sigchan[p]: the signals buffered in channel c (capacity 1)
    doneClosed, \* doneClosed[p]: channel done is closed
    once,       \* once[p]: the stop function's sync.Once has run
    lpc,        \* lpc[p]: position of the listener goroutine
    lsig,       \* lsig[p]: the signal the listener received
    exit,       \* exit[p]: how the process ended, and its exit code
    closes,     \* closes[p]: executions of close(done) (history)
    releases,   \* releases[p]: executions of releaseLock(lockFile) (history)
    sigs,       \* sigs[p]: signals sent to p (history)
    sigHeld,    \* sigHeld[p]: a signal reached p after acquireLock succeeded
    opts,       \* opts[p]: maxIterations, maxPerHour, maxPerDay, dryRun, quiet,
                \* verbose as runIterationsWithRunner receives them
    iter,       \* iter[p]: the loop counter i of runIterationsWithRunner
    state,      \* state[p]: the State held in memory
    finalStatus,\* finalStatus[p]
    retErr,     \* retErr[p]: the error runIterationsWithRunner returns
    prompt,     \* prompt[p]: the prompt built in the current iteration
    output,     \* output[p]: what runner.Run returned in the current iteration
    runErr,     \* runErr[p]: runner.Run returned an error
    calls,      \* calls[p]: invocations of runner.Run in this run (history)
    checked,    \* checked[p]: the last admission check: timestamps, now, calls,
                \* and the state file as it was then (history)
    completeAt, \* completeAt[p]: calls[p] at the first output signalling
                \* completion, 0 before (history)
    stateFile,  \* .ralph/state.json
    notesFile,  \* .ralph/notes.md: the sections appended, oldest first
    now,        \* the wall clock, in Unix seconds
    ticks,      \* how often the clock advanced (history)
    appended,   \* appended[p]: timestamps appended to state.Timestamps in this
                \* run (history)
    noteErr,    \* noteErr[p]: appendNotes returned an error in this iteration
    fileOps,    \* fileOps[p]: the reads and writes of .ralph/state.json and
                \* .ralph/notes.md this run has made (history)
    relFailed,  \* relFailed[p]: the last releaseLock call of p returned an error
    runs,       \* how many runs of the command have been started (history)
    call,       \* a function called on its own: its name, arguments and results
    cli,        \* cli[p]: the command p was started with, the configured
                \* max_iterations, max_per_hour and max_per_day, and the
                \* --max-iterations, --max-per-hour and --max-per-day flags
                \* (-1: not given)
    stdout,     \* stdout[p]: the lines p has written to standard output
    configFile  \* .ralph/config.json

acqVars == <<attempts, pid, locked, acqErr>>
sigVars == <<notify, sigchan, doneClosed, once, lpc, lsig>>
histVars == <<closes, releases, sigs, sigHeld>>
loopVars == <<opts, iter, state, finalStatus, retErr, prompt, output, runErr,
              calls, checked, completeAt>>
envVars == <<stateFile, notesFile, now, ticks>>
auxVars == <<appended, noteErr, fileOps, relFailed, runs, call, cli, stdout, configFile>>
vars == <<lock, lock0, alive, pc, attempts, pid, locked, acqErr,
          notify, sigchan, doneClosed, once, lpc, lsig, exit,
          closes, releases, sigs, sigHeld,
          opts, iter, state, finalStatus, retErr, prompt, output, runErr,
          calls, checked, completeAt, stateFile, notesFile, now, ticks,
          appended, noteErr, fileOps, relFailed, runs, call, cli, stdout, configFile>>

\* ------------------------------------------------------- liveness probing
\* syscall.Kill(pid, 0): nil for a process of this user, EPERM for a process
\* of another user, ESRCH when there is no such process.
Kill0(n) ==
    IF n \in alive THEN "nil"
    ELSE IF n = ForeignPid THEN "EPERM"
    ELSE IF n = OtherErrPid THEN "EINVAL"
    ELSE "ESRCH"

\* (mutant of isProcessRunning: an errno the switch does not name means dead)
isProcessRunning_DefaultDead(n) ==
    IF n <= 0 THEN FALSE
    ELSE IF Kill0(n) = "nil" THEN TRUE
    ELSE IF Kill0(n) = "ESRCH" THEN FALSE
    ELSE IF Kill0(n) = "EPERM" THEN TRUE
    ELSE FALSE

isProcessRunning(n) ==
    IF n <= 0 THEN FALSE
    ELSE IF Kill0(n) = "nil" THEN TRUE
    ELSE IF Kill0(n) = "ESRCH" THEN FALSE
    ELSE IF Kill0(n) = "EPERM" THEN TRUE
    ELSE TRUE

\* (mutant of readLockPID: the pid <= 0 check is missing)
readLockPID_NoSignCheck(f) ==
    IF f.kind = "int"
    THEN [ok |-> TRUE, pid |-> f.pid]
    ELSE [ok |-> FALSE, pid |-> 0]

\* readLockPID: (pid, ok).  os.Open fails on an absent file, fmt.Fscan on an
\* empty or non-numeric one, and a pid <= 0 is rejected.
readLockPID(f) ==
    IF f.kind = "int" /\ f.pid > 0
    THEN [ok |-> TRUE, pid |-> f.pid]
    ELSE [ok |-> FALSE, pid |-> 0]

\* ------------------------------------------------------------ acquireLock
MaxAttempts == 2

\* the return of acquireLock
AcquireReturn(p, ok, err) ==
    /\ locked' = [locked EXCEPT ![p] = ok]
    /\ acqErr' = [acqErr EXCEPT ![p] = err]
    /\ pc' = [pc EXCEPT ![p] = "acq_ret"]

\* (mutant of AcquireOpen: O_EXCL is missing, an existing file is opened)
AcquireOpen_NoExcl(p) ==
    /\ pc[p] = "acq_open"
    /\ IF attempts[p] >= MaxAttempts
       THEN /\ AcquireReturn(p, FALSE, "unable")
            /\ UNCHANGED <<lock, attempts>>
       ELSE /\ lock' = IF lock = Absent THEN Created(p) ELSE lock
            /\ pc' = [pc EXCEPT ![p] = "acq_write"]
            /\ UNCHANGED <<attempts, locked, acqErr>>
    /\ UNCHANGED <<lock0, alive, pid, sigVars, exit, histVars,
                   loopVars, envVars,
                   auxVars>>

\* (mutant of AcquireOpen: the loop has no bound on attempts)
AcquireOpen_Unbounded(p) ==
    /\ pc[p] = "acq_open"
    /\ IF lock = Absent
       THEN /\ lock' = Created(p)
            /\ pc' = [pc EXCEPT ![p] = "acq_write"]
            /\ UNCHANGED <<attempts, locked, acqErr>>
       ELSE /\ pc' = [pc EXCEPT ![p] = "acq_read"]
            /\ UNCHANGED <<lock, attempts, locked, acqErr>>
    /\ UNCHANGED <<lock0, alive, pid, sigVars, exit, histVars,
                   loopVars, envVars,
                   auxVars>>

\* for attempts < 2: os.OpenFile(path, O_CREATE|O_EXCL|O_WRONLY)
AcquireOpen(p) ==
    /\ pc[p] = "acq_open"
    /\ IF attempts[p] >= MaxAttempts
       THEN /\ AcquireReturn(p, FALSE, "unable")
            /\ UNCHANGED <<lock, attempts>>
       ELSE IF lock = Absent
       THEN /\ lock' = Created(p)
            /\ pc' = [pc EXCEPT ![p] = "acq_write"]
            /\ UNCHANGED <<attempts, locked, acqErr>>
       ELSE /\ pc' = [pc EXCEPT ![p] = "acq_read"]
            /\ UNCHANGED <<lock, attempts, locked, acqErr>>
    /\ UNCHANGED <<lock0, alive, pid, sigVars, exit, histVars,
                   loopVars, envVars,
                   auxVars>>

\* fmt.Fprintf(f, "%d\n", os.Getpid()); return true, nil.  The write goes to
\* the file this process created, whatever the path names by now.
AcquireWritePid(p) ==
    /\ pc[p] = "acq_write"
    /\ lock' = IF lock = Created(p) THEN Written(p) ELSE lock
    /\ AcquireReturn(p, TRUE, "nil")
    /\ UNCHANGED <<lock0, alive, attempts, pid, sigVars, exit, histVars,
                   loopVars, envVars,
                   auxVars>>

\* pid, err := readLockPID(path); on error the call fails
AcquireReadPid(p) ==
    /\ pc[p] = "acq_read"
    /\ IF readLockPID(lock).ok
       THEN /\ pid' = [pid EXCEPT ![p] = readLockPID(lock).pid]
            /\ pc' = [pc EXCEPT ![p] = "acq_probe"]
            /\ UNCHANGED <<locked, acqErr>>
       ELSE /\ AcquireReturn(p, FALSE, "exists")
            /\ UNCHANGED pid
    /\ UNCHANGED <<lock, lock0, alive, attempts, sigVars, exit, histVars,
                   loopVars, envVars,
                   auxVars>>

\* if isProcessRunning(pid) the call fails, naming the pid
AcquireProbe(p) ==
    /\ pc[p] = "acq_probe"
    /\ IF isProcessRunning(pid[p])
       THEN AcquireReturn(p, FALSE, "exists_pid")
       ELSE /\ pc' = [pc EXCEPT ![p] = "acq_remove"]
            /\ UNCHANGED <<locked, acqErr>>
    /\ UNCHANGED <<lock, lock0, alive, attempts, pid, sigVars, exit, histVars,
                   loopVars, envVars,
                   auxVars>>

\* (mutant of AcquireRemove: the stale file is not removed)
AcquireRemove_Keeps(p) ==
    /\ pc[p] = "acq_remove"
    /\ attempts' = [attempts EXCEPT ![p] = attempts[p] + 1]
    /\ pc' = [pc EXCEPT ![p] = "acq_open"]
    /\ UNCHANGED <<lock, lock0, alive, pid, locked, acqErr, sigVars, exit, histVars,
                   loopVars, envVars,
                   auxVars>>

\* os.Remove(path), ErrNotExist ignored; attempts++
AcquireRemove(p) ==
    /\ pc[p] = "acq_remove"
    /\ lock' = Absent
    /\ attempts' = [attempts EXCEPT ![p] = attempts[p] + 1]
    /\ pc' = [pc EXCEPT ![p] = "acq_open"]
    /\ UNCHANGED <<lock0, alive, pid, locked, acqErr, sigVars, exit, histVars,
                   loopVars, envVars,
                   auxVars>>

acquireLock(p) ==
    \/ AcquireOpen(p)
    \/ AcquireWritePid(p)
    \/ AcquireReadPid(p)
    \/ AcquireProbe(p)
    \/ AcquireRemove(p)

\* ------------------------------------------------- state and rate limiter
Hour == 3600
Day == 24 * Hour
T0 == 2 * Day             \* the clock's first value

\* State{Timestamps: []int64{}}: what loadState returns for no usable file
EmptyState == [TotalIterations |-> 0, Timestamps |-> <<>>, LastRun |-> 0]

\* .ralph/state.json: absent, not JSON ("text"), or a State as JSON
NoStateFile == [kind |-> "absent", TotalIterations |-> 0, Timestamps |-> <<>>,
                LastRun |-> 0]
BadStateFile == [kind |-> "text", TotalIterations |-> 0, Timestamps |-> <<>>,
                 LastRun |-> 0]
JsonState(st) == [kind |-> "json", TotalIterations |-> st.TotalIterations,
                  Timestamps |-> st.Timestamps, LastRun |-> st.LastRun]

\* (mutant of loadState: the lifetime counter is not read back)
loadState_ResetsTotal(f) ==
    IF f.kind = "json"
    THEN [TotalIterations |-> 0, Timestamps |-> f.Timestamps, LastRun |-> f.LastRun]
    ELSE EmptyState

\* loadState: os.ReadFile, json.Unmarshal; either failing gives the empty State
loadState(f) ==
    IF f.kind = "json"
    THEN [TotalIterations |-> f.TotalIterations, Timestamps |-> f.Timestamps,
          LastRun |-> f.LastRun]
    ELSE EmptyState

\* saveState: json.MarshalIndent, os.WriteFile
\* a saveState that writes nothing: the state file stays as it was
saveState_Skipped(st) == stateFile

saveState(st) == JsonState(st)

\* countRecentIterations: one pass over the timestamps; t is time.Now()
RECURSIVE CountFrom(_, _, _, _)
CountFrom(ts, k, t, acc) ==
    IF k > Len(ts) THEN acc
    ELSE IF ts[k] > t - Day
         THEN CountFrom(ts, k + 1, t,
                  [hourCount |-> acc.hourCount + (IF ts[k] > t - Hour THEN 1 ELSE 0),
                   dayCount |-> acc.dayCount + 1])
         ELSE CountFrom(ts, k + 1, t, acc)

\* (mutant of countRecentIterations: the two counters are exchanged)
countRecentIterations_Swapped(ts, t) ==
    LET c == CountFrom(ts, 1, t, [hourCount |-> 0, dayCount |-> 0])
    IN [hourCount |-> c.dayCount, dayCount |-> c.hourCount]

countRecentIterations(ts, t) ==
    CountFrom(ts, 1, t, [hourCount |-> 0, dayCount |-> 0])

\* pruneOldTimestamps: keep ts > cutoff, cutoff 24 hours before time.Now()
Newer(cutoff, x) == x > cutoff
pruneOldTimestamps(ts, t) ==
    LET cutoff == t - Day
        Keep(x) == Newer(cutoff, x)
    IN SelectSeq(ts, Keep)

\* (mutant of RateLimit: > where the code has >=)
RateLimit_Strict(o, ts, t) ==
    IF o.maxPerHour > 0 \/ o.maxPerDay > 0
    THEN LET c == countRecentIterations(ts, t)
         IN IF o.maxPerHour > 0 /\ c.hourCount > o.maxPerHour THEN "hour"
            ELSE IF o.maxPerDay > 0 /\ c.dayCount > o.maxPerDay THEN "day"
            ELSE "none"
    ELSE "none"

\* the admission check of lines 430-447: which limit, if any, stops the run
RateLimit(o, ts, t) ==
    IF o.maxPerHour > 0 \/ o.maxPerDay > 0
    THEN LET c == countRecentIterations(ts, t)
         IN IF o.maxPerHour > 0 /\ c.hourCount >= o.maxPerHour THEN "hour"
            ELSE IF o.maxPerDay > 0 /\ c.dayCount >= o.maxPerDay THEN "day"
            ELSE "none"
    ELSE "none"

\* ----------------------------------------------------- protocol extractor
\* Agent output is a sequence of tokens: tags, whitespace and words.
IsSpace(t) == t \in {" ", "\n"}

\* case folding of (?i)
Fold(t) ==
    CASE t = "COMPLETE" -> "complete"
      [] t = "Complete" -> "complete"
      [] t = "INCOMPLETE" -> "incomplete"
      [] t = "<RALPH_STATUS>" -> "<ralph_status>"
      [] t = "</RALPH_STATUS>" -> "</ralph_status>"
      [] OTHER -> t

\* the first index >= k of out that holds no whitespace (Len(out)+1 if none)
RECURSIVE SkipSpace(_, _)
SkipSpace(out, k) ==
    IF k <= Len(out) /\ IsSpace(out[k]) THEN SkipSpace(out, k + 1) ELSE k

\* (?si)<ralph_status>\s*COMPLETE\s*</ralph_status> matches at index k
StatusAt(out, k) ==
    /\ Fold(out[k]) = "<ralph_status>"
    /\ LET a == SkipSpace(out, k + 1)
       IN /\ a <= Len(out)
          /\ Fold(out[a]) = "complete"
          /\ LET b == SkipSpace(out, a + 1)
             IN b <= Len(out) /\ Fold(out[b]) = "</ralph_status>"

\* (mutant of isComplete: the (?i) flag is missing)
isComplete_CaseSensitive(out) ==
    \E k \in 1..Len(out) :
        /\ out[k] = "<ralph_status>"
        /\ LET a == SkipSpace(out, k + 1)
           IN /\ a <= Len(out)
              /\ out[a] = "COMPLETE"
              /\ LET b == SkipSpace(out, a + 1)
                 IN b <= Len(out) /\ out[b] = "</ralph_status>"

isComplete(out) == \E k \in 1..Len(out) : StatusAt(out, k)

\* strings.TrimSpace
RECURSIVE TrimRight(_)
TrimRight(x) ==
    IF x # <<>> /\ IsSpace(x[Len(x)]) THEN TrimRight(SubSeq(x, 1, Len(x) - 1)) ELSE x
TrimSpace(x) == TrimRight(SubSeq(x, SkipSpace(x, 1), Len(x)))

\* (mutant of extractNotes: the span runs to the last closing tag)
extractNotes_Greedy(out) ==
    LET Opens == {k \in 1..Len(out) : /\ out[k] = "<ralph_notes>"
                                      /\ \E j \in (k + 1)..Len(out) : out[j] = "</ralph_notes>"}
    IN IF Opens = {} THEN <<>>
       ELSE LET a == CHOOSE k \in Opens : \A m \in Opens : k <= m
                b == CHOOSE j \in (a + 1)..Len(out) :
                        /\ out[j] = "</ralph_notes>"
                        /\ \A m \in (j + 1)..Len(out) : out[m] # "</ralph_notes>"
            IN TrimSpace(SubSeq(out, a + 1, b - 1))

\* (?s)<ralph_notes>(.*?)</ralph_notes>: leftmost opening tag that a closing
\* tag follows, up to the first closing tag after it
extractNotes(out) ==
    LET Opens == {k \in 1..Len(out) : /\ out[k] = "<ralph_notes>"
                                      /\ \E j \in (k + 1)..Len(out) : out[j] = "</ralph_notes>"}
    IN IF Opens = {} THEN <<>>
       ELSE LET a == CHOOSE k \in Opens : \A m \in Opens : k <= m
                b == CHOOSE j \in (a + 1)..Len(out) :
                        /\ out[j] = "</ralph_notes>"
                        /\ \A m \in (a + 1)..(j - 1) : out[m] # "</ralph_notes>"
            IN TrimSpace(SubSeq(out, a + 1, b - 1))

\* readFileOrDefault(notesFile, "No notes yet."): the whole journal
readNotesOrDefault(f) ==
    [text |-> IF f = <<>> THEN "No notes yet." ELSE "journal", sections |-> f]

\* constructPrompt: the parts of the prompt that vary between iterations
constructPrompt(notesMD, iteration, maxIterations) ==
    [notes |-> notesMD, iteration |-> iteration, maxIterations |-> maxIterations]

\* ------------------------------------------------------------ releaseLock
\* (mutant of releaseLock: ErrNotExist is returned like any other error)
releaseLock_NotExistIsError(p) ==
    /\ \E removed \in BOOLEAN :
          /\ removed \/ lock # Absent
          /\ lock' = IF removed THEN Absent ELSE lock
          /\ relFailed' = [relFailed EXCEPT ![p] = ~removed \/ lock = Absent]
    /\ releases' = [releases EXCEPT ![p] = releases[p] + 1]

\* os.Remove(path); ErrNotExist is no error
releaseLock(p) ==
    /\ \E removed \in BOOLEAN :
          /\ removed \/ lock # Absent
          /\ lock' = IF removed THEN Absent ELSE lock
          /\ relFailed' = [relFailed EXCEPT ![p] = ~removed]
    /\ releases' = [releases EXCEPT ![p] = releases[p] + 1]

\* ------------------------------------------------------- process endings
Running == [how |-> "running", code |-> 0]

\* the process ends: every goroutine of it stops
Terminate(p, how, code) ==
    /\ alive' = alive \ {p}
    /\ exit' = [exit EXCEPT ![p] = [how |-> how, code |-> code]]
    /\ pc' = [pc EXCEPT ![p] = "exited"]
    /\ lpc' = [lpc EXCEPT ![p] = IF lpc[p] = "none" THEN "none" ELSE "dead"]

\* a Go panic that nothing recovers: exit status 2
Panic(p) == Terminate(p, "panic", 2)

\* ----------------------------------------- installLockSignalHandler
Signals == {"SIGINT", "SIGTERM"}
SigNum(s) == IF s = "SIGINT" THEN 2 ELSE 15

\* c := make(chan os.Signal, 1); signal.Notify(c, ...); done := make(...);
\* go func() {...}(); var once sync.Once
installLockSignalHandler(p) ==
    /\ pc[p] = "install"
    /\ notify' = [notify EXCEPT ![p] = TRUE]
    /\ lpc' = [lpc EXCEPT ![p] = "select"]
    /\ pc' = [pc EXCEPT ![p] = "load"]
    /\ UNCHANGED <<lock, lock0, alive, acqVars, sigchan, doneClosed, once, lsig,
                   exit, histVars,
                   loopVars, envVars,
                   auxVars>>

\* the listener's select: case sig := <-c
ListenerReceive(p) ==
    /\ p \in alive
    /\ lpc[p] = "select"
    /\ sigchan[p] # <<>>
    /\ lsig' = [lsig EXCEPT ![p] = Head(sigchan[p])]
    /\ sigchan' = [sigchan EXCEPT ![p] = Tail(sigchan[p])]
    /\ lpc' = [lpc EXCEPT ![p] = "l_stop"]
    /\ UNCHANGED <<lock, lock0, alive, pc, acqVars, notify, doneClosed, once,
                   exit, histVars,
                   loopVars, envVars,
                   auxVars>>

\* the listener's select: case <-done: signal.Stop(c); return
ListenerDone(p) ==
    /\ p \in alive
    /\ lpc[p] = "select"
    /\ doneClosed[p]
    /\ notify' = [notify EXCEPT ![p] = FALSE]
    /\ lpc' = [lpc EXCEPT ![p] = "l_returned"]
    /\ UNCHANGED <<lock, lock0, alive, pc, acqVars, sigchan, doneClosed, once,
                   lsig, exit, histVars,
                   loopVars, envVars,
                   auxVars>>

\* (mutant of ListenerStop: signal.Stop(c) is missing from the signal branch)
ListenerStop_NoStop(p) ==
    /\ p \in alive
    /\ lpc[p] = "l_stop"
    /\ lpc' = [lpc EXCEPT ![p] = "l_close"]
    /\ UNCHANGED <<lock, lock0, alive, pc, acqVars, notify, sigchan, doneClosed, once,
                   lsig, exit, histVars,
                   loopVars, envVars,
                   auxVars>>

\* signal.Stop(c) in the signal branch
ListenerStop(p) ==
    /\ p \in alive
    /\ lpc[p] = "l_stop"
    /\ notify' = [notify EXCEPT ![p] = FALSE]
    /\ lpc' = [lpc EXCEPT ![p] = "l_close"]
    /\ UNCHANGED <<lock, lock0, alive, pc, acqVars, sigchan, doneClosed, once,
                   lsig, exit, histVars,
                   loopVars, envVars,
                   auxVars>>

\* close(done) in the signal branch; closing a closed channel panics
ListenerClose(p) ==
    /\ p \in alive
    /\ lpc[p] = "l_close"
    /\ closes' = [closes EXCEPT ![p] = closes[p] + 1]
    /\ IF doneClosed[p]
       THEN /\ Panic(p)
            /\ UNCHANGED doneClosed
       ELSE /\ doneClosed' = [doneClosed EXCEPT ![p] = TRUE]
            /\ lpc' = [lpc EXCEPT ![p] = "l_release"]
            /\ UNCHANGED <<alive, pc, exit>>
    /\ UNCHANGED <<lock, lock0, acqVars, notify, sigchan, once, lsig,
                   releases, sigs, sigHeld,
                   loopVars, envVars,
                   auxVars>>

\* releaseLock(lockPath) in the signal branch
ListenerRelease(p) ==
    /\ p \in alive
    /\ lpc[p] = "l_release"
    /\ releaseLock(p)
    /\ lpc' = [lpc EXCEPT ![p] = "l_exit"]
    /\ UNCHANGED <<lock0, alive, pc, acqVars, notify, sigchan, doneClosed, once,
                   lsig, exit, closes, sigs, sigHeld,
                   loopVars, envVars,
                   appended, noteErr, fileOps, runs, call, cli, stdout, configFile>>

\* (mutant of ExitCode: the switch on sig is missing)
ExitCode_Generic(s) == 1

\* exitCode := 1; SIGINT: 130; SIGTERM: 143; os.Exit(exitCode)
ExitCode(s) ==
    IF s = "SIGINT" THEN 130
    ELSE IF s = "SIGTERM" THEN 143
    ELSE 1

ListenerExit(p) ==
    /\ p \in alive
    /\ lpc[p] = "l_exit"
    /\ Terminate(p, "os.Exit", ExitCode(lsig[p]))
    /\ UNCHANGED <<lock, lock0, acqVars, notify, sigchan, doneClosed, once, lsig,
                   histVars,
                   loopVars, envVars,
                   auxVars>>

listener(p) ==
    \/ ListenerReceive(p)
    \/ ListenerDone(p)
    \/ ListenerStop(p)
    \/ ListenerClose(p)
    \/ ListenerRelease(p)
    \/ ListenerExit(p)

\* The stop function: once.Do(func() { signal.Stop(c); close(done) })
StopSignalStop(p) ==
    /\ pc[p] = "d_stop"
    /\ IF once[p]
       THEN /\ pc' = [pc EXCEPT ![p] = "returned"]
            /\ UNCHANGED <<notify, once>>
       ELSE /\ once' = [once EXCEPT ![p] = TRUE]
            /\ notify' = [notify EXCEPT ![p] = FALSE]
            /\ pc' = [pc EXCEPT ![p] = "d_close"]
    /\ UNCHANGED <<lock, lock0, alive, acqVars, sigchan, doneClosed, lpc, lsig,
                   exit, histVars,
                   loopVars, envVars,
                   auxVars>>

StopClose(p) ==
    /\ pc[p] = "d_close"
    /\ closes' = [closes EXCEPT ![p] = closes[p] + 1]
    /\ IF doneClosed[p]
       THEN /\ Panic(p)
            /\ UNCHANGED doneClosed
       ELSE /\ doneClosed' = [doneClosed EXCEPT ![p] = TRUE]
            /\ pc' = [pc EXCEPT ![p] = "returned"]
            /\ UNCHANGED <<alive, lpc, exit>>
    /\ UNCHANGED <<lock, lock0, acqVars, notify, sigchan, once, lsig,
                   releases, sigs, sigHeld,
                   loopVars, envVars,
                   auxVars>>

\* ------------------------------------------------------ signal delivery
MaxSignals == 2        \* signals sent to one process

\* The operating system delivers SIGINT or SIGTERM to process p.  With c
\* registered the Go runtime sends the signal to c without blocking (a full
\* buffer drops it); with no channel registered the signal has its default
\* action and ends the process at once.
Deliver(p, s) ==
    /\ p \in alive
    /\ pc[p] # "start"
    /\ sigs[p] < MaxSignals
    /\ sigs' = [sigs EXCEPT ![p] = sigs[p] + 1]
    /\ sigHeld' = [sigHeld EXCEPT ![p] = sigHeld[p] \/ locked[p]]
    /\ IF notify[p]
       THEN /\ sigchan' = [sigchan EXCEPT ![p] =
                   IF Len(sigchan[p]) < 1 THEN Append(sigchan[p], s) ELSE sigchan[p]]
            /\ UNCHANGED <<alive, pc, lpc, exit>>
       ELSE /\ Terminate(p, "signal", SigNum(s))
            /\ UNCHANGED sigchan
    /\ UNCHANGED <<lock, lock0, acqVars, notify, doneClosed, once, lsig,
                   closes, releases,
                   loopVars, envVars,
                   auxVars>>

\* ------------------------------------------- runIterationsWithRunner
MaxIter == 2           \* the largest maxIterations a run is given
MaxRate == 1           \* the largest maxPerHour and maxPerDay a run is given
MaxTicks == 1          \* how often the clock advances

\* what the runner may return
Outputs ==
    { <<>>,
      <<"<ralph_status>", "COMPLETE", "</ralph_status>">>,
      <<"<ralph_status>", "INCOMPLETE", "</ralph_status>">>,
      <<"<ralph_notes>", "\n", "hello", "\n", "</ralph_notes>">>,
      <<"<ralph_notes>", "oops">>,
      <<"<ralph_notes>", "done", "</ralph_notes>", "\n",
        "<ralph_status>", " ", "Complete", "\n", "</ralph_status>">> }

\* (output, error) pairs of runner.Run: the command may fail after printing
\* nothing or part of its output
RunResults ==
    {[output |-> out, err |-> FALSE] : out \in Outputs}
        \cup {[output |-> <<>>, err |-> TRUE],
              [output |-> <<"<ralph_notes>", "oops">>, err |-> TRUE],
              [output |-> <<"<ralph_notes>", "\n", "hello", "\n", "</ralph_notes>">>,
               err |-> TRUE],
              [output |-> <<"<ralph_status>", "COMPLETE", "</ralph_status>">>, err |-> TRUE]}

\* runIterationsWithRunner starts: os.MkdirAll(ralphDir, 0755)
RunStart(p) ==
    /\ pc[p] = "start"
    /\ pc' = [pc EXCEPT ![p] = "acq_open"]
    /\ UNCHANGED <<lock, lock0, alive, acqVars, sigVars, exit, histVars,
                   loopVars, envVars,
                   auxVars>>

\* (mutant of AfterAcquire: the error of acquireLock is not looked at)
AfterAcquire_IgnoresError(p) ==
    /\ pc[p] = "acq_ret"
    /\ pc' = [pc EXCEPT ![p] = IF locked[p] THEN "install" ELSE "load"]
    /\ UNCHANGED <<lock, lock0, alive, acqVars, sigVars, exit, histVars,
                   loopVars, envVars, auxVars>>

\* locked, err := acquireLock(lockFile); if err != nil return
AfterAcquire(p) ==
    /\ pc[p] = "acq_ret"
    /\ IF acqErr[p] # "nil"
       THEN /\ retErr' = [retErr EXCEPT ![p] = "acquiring lock"]
            /\ pc' = [pc EXCEPT ![p] = "returned"]
       ELSE /\ pc' = [pc EXCEPT ![p] = IF locked[p] THEN "install" ELSE "load"]
            /\ UNCHANGED retErr
    /\ UNCHANGED <<lock, lock0, alive, acqVars, sigVars, exit, histVars,
                   opts, iter, state, finalStatus, prompt, output, runErr,
                   calls, checked, completeAt, envVars,
                   auxVars>>

\* fmt.Print / fmt.Println / fmt.Printf to standard output
Emit(p, lines) == [stdout EXCEPT ![p] = @ \o lines]

\* if !quiet { fmt.Print... }
Report(p, lines) == IF opts[p].quiet THEN stdout ELSE Emit(p, lines)

\* statusStyle(finalStatus): the label is strings.ToUpper(status)
StatusLine(status) ==
    CASE status = "complete" -> "Status: COMPLETE"
      [] status = "rate_limited" -> "Status: RATE_LIMITED"
      [] status = "max_iterations" -> "Status: MAX_ITERATIONS"
      [] status = "dry_run" -> "Status: DRY_RUN"
      [] OTHER -> "Status: UNKNOWN"

\* the deferred summary: skipped when err != nil or !showSummary, where
\* showSummary := !quiet && !dryRun
Summary(p) ==
    IF retErr[p] # "nil" \/ opts[p].quiet \/ opts[p].dryRun THEN <<>>
    ELSE <<"--- Summary ---", "Iterations:", "Duration:", StatusLine(finalStatus[p])>>

\* state := loadState(); if !quiet { fmt.Print(banner) }
LoadState(p) ==
    /\ pc[p] = "load"
    /\ state' = [state EXCEPT ![p] = loadState(stateFile)]
    /\ fileOps' = [fileOps EXCEPT ![p] = @ \cup {"state.read"}]
    /\ pc' = [pc EXCEPT ![p] = "loop"]
    /\ stdout' = Report(p, <<"banner">>)
    /\ UNCHANGED <<lock, lock0, alive, acqVars, sigVars, exit, histVars,
                   opts, iter, finalStatus, retErr, prompt, output, runErr,
                   calls, checked, completeAt, envVars,
                   appended, noteErr, relFailed, runs, call, cli, configFile>>

\* (mutant of Leave: the deferred release is missing)
Leave_NoRelease(p) == IF locked[p] THEN "d_stop" ELSE "returned"

\* an exit from the function body: the deferred calls run, newest first
Leave(p) == IF locked[p] THEN "d_release" ELSE "returned"

\* (mutant of IterBegin: the loop test is i <= maxIterations)
IterBegin_OffByOne(p) ==
    /\ pc[p] = "loop"
    /\ IF iter[p] > opts[p].maxIterations
       THEN /\ finalStatus' = [finalStatus EXCEPT ![p] = "max_iterations"]
            /\ pc' = [pc EXCEPT ![p] = Leave(p)]
            /\ UNCHANGED <<state, checked>>
       ELSE /\ state' = [state EXCEPT ![p].TotalIterations = @ + 1]
            /\ checked' = [checked EXCEPT ![p] =
                   [timestamps |-> state[p].Timestamps, now |-> now, calls |-> calls[p],
                    file |-> stateFile]]
            /\ IF RateLimit(opts[p], state[p].Timestamps, now) # "none"
               THEN /\ finalStatus' = [finalStatus EXCEPT ![p] = "rate_limited"]
                    /\ pc' = [pc EXCEPT ![p] = "save_rl"]
               ELSE /\ pc' = [pc EXCEPT ![p] = "build"]
                    /\ UNCHANGED finalStatus
    /\ UNCHANGED <<lock, lock0, alive, acqVars, sigVars, exit, histVars,
                   opts, iter, retErr, prompt, output, runErr, calls, completeAt,
                   envVars,
                   auxVars>>

\* for i < maxIterations: state.TotalIterations++, then the admission check
IterBegin(p) ==
    /\ pc[p] = "loop"
    /\ IF iter[p] >= opts[p].maxIterations
       THEN /\ finalStatus' = [finalStatus EXCEPT ![p] = "max_iterations"]
            /\ stdout' = Report(p, <<"Reached maximum iterations">>)
            /\ pc' = [pc EXCEPT ![p] = Leave(p)]
            /\ UNCHANGED <<state, checked>>
       ELSE /\ state' = [state EXCEPT ![p].TotalIterations = @ + 1]
            /\ checked' = [checked EXCEPT ![p] =
                   [timestamps |-> state[p].Timestamps, now |-> now, calls |-> calls[p],
                    file |-> stateFile]]
            /\ IF RateLimit(opts[p], state[p].Timestamps, now) # "none"
               THEN /\ finalStatus' = [finalStatus EXCEPT ![p] = "rate_limited"]
                    /\ stdout' = Report(p, <<"=== Iteration ===", "Rate limit reached">>)
                    /\ pc' = [pc EXCEPT ![p] = "save_rl"]
               ELSE /\ pc' = [pc EXCEPT ![p] = "build"]
                    /\ stdout' = Report(p, IF opts[p].maxPerHour > 0 \/ opts[p].maxPerDay > 0
                                           THEN <<"=== Iteration ===", "Rate:">>
                                           ELSE <<"=== Iteration ===">>)
                    /\ UNCHANGED finalStatus
    /\ UNCHANGED <<lock, lock0, alive, acqVars, sigVars, exit, histVars,
                   opts, iter, retErr, prompt, output, runErr, calls, completeAt,
                   envVars,
                   appended, noteErr, fileOps, relFailed, runs, call, cli, configFile>>

\* (mutant of SaveRateLimited: the refused iteration is recorded)
SaveRateLimited_Records(p) ==
    /\ pc[p] = "save_rl"
    /\ state' = [state EXCEPT
           ![p].Timestamps = pruneOldTimestamps(Append(@, now), now),
           ![p].LastRun = now]
    /\ appended' = [appended EXCEPT ![p] = @ + 1]
    /\ stateFile' = saveState(state'[p])
    /\ fileOps' = [fileOps EXCEPT ![p] = @ \cup {"state.write"}]
    /\ pc' = [pc EXCEPT ![p] = Leave(p)]
    /\ UNCHANGED <<lock, lock0, alive, acqVars, sigVars, exit, histVars,
                   opts, iter, finalStatus, retErr, prompt, output, runErr,
                   calls, checked, completeAt, notesFile, now, ticks,
                   noteErr, relFailed, runs, call, cli, stdout, configFile>>

\* saveState(state); return nil  (the rate-limited exit)
SaveRateLimited(p) ==
    /\ pc[p] = "save_rl"
    /\ stateFile' = saveState(state[p])
    /\ fileOps' = [fileOps EXCEPT ![p] = @ \cup {"state.write"}]
    /\ pc' = [pc EXCEPT ![p] = Leave(p)]
    /\ UNCHANGED <<lock, lock0, alive, acqVars, sigVars, exit, histVars,
                   loopVars, notesFile, now, ticks,
                   appended, noteErr, relFailed, runs, call, cli, stdout, configFile>>

\* (mutant of Build: dryRun is not looked at)
Build_NoDryRun(p) ==
    /\ pc[p] = "build"
    /\ \E unreadable \in {"none", "prompt", "conventions", "specs"} :
          IF unreadable # "none"
          THEN /\ retErr' = [retErr EXCEPT ![p] = unreadable]
               /\ pc' = [pc EXCEPT ![p] = Leave(p)]
               /\ UNCHANGED <<prompt, fileOps>>
          ELSE /\ prompt' = [prompt EXCEPT ![p] =
                      constructPrompt(readNotesOrDefault(notesFile),
                                      state[p].TotalIterations, opts[p].maxIterations)]
               /\ pc' = [pc EXCEPT ![p] = "invoke"]
               /\ UNCHANGED retErr
               /\ fileOps' = [fileOps EXCEPT ![p] = @ \cup {"notes.read"}]
    /\ UNCHANGED <<lock, lock0, alive, acqVars, sigVars, exit, histVars,
                   opts, iter, state, finalStatus, output, runErr, calls, checked,
                   completeAt, envVars,
                   appended, noteErr, relFailed, runs, call, cli, stdout, configFile>>

\* (mutant of Build: an unreadable input file is reported but the iteration
\* goes on)
Build_ReadErrorContinues(p) ==
    /\ pc[p] = "build"
    /\ \E unreadable \in {"none", "prompt", "conventions", "specs"} :
          /\ retErr' = [retErr EXCEPT ![p] = IF unreadable # "none" THEN unreadable ELSE @]
          /\ prompt' = [prompt EXCEPT ![p] =
                 constructPrompt(readNotesOrDefault(notesFile),
                                 state[p].TotalIterations, opts[p].maxIterations)]
          /\ fileOps' = [fileOps EXCEPT ![p] = @ \cup {"notes.read"}]
          /\ IF opts[p].dryRun
             THEN /\ finalStatus' = [finalStatus EXCEPT ![p] = "dry_run"]
                  /\ pc' = [pc EXCEPT ![p] = Leave(p)]
             ELSE /\ pc' = [pc EXCEPT ![p] = "invoke"]
                  /\ UNCHANGED finalStatus
    /\ UNCHANGED <<lock, lock0, alive, acqVars, sigVars, exit, histVars,
                   opts, iter, state, output, runErr, calls, checked, completeAt,
                   envVars,
                   appended, noteErr, relFailed, runs, call, cli, stdout, configFile>>

\* readFile of the prompt, conventions and specs files, readFileOrDefault of
\* the notes, constructPrompt, and the dry-run exit
Build(p) ==
    /\ pc[p] = "build"
    /\ \E unreadable \in {"none", "prompt", "conventions", "specs"} :
          IF unreadable # "none"
          THEN /\ retErr' = [retErr EXCEPT ![p] = unreadable]
               /\ pc' = [pc EXCEPT ![p] = Leave(p)]
               /\ UNCHANGED <<prompt, finalStatus, fileOps, stdout>>
          ELSE /\ prompt' = [prompt EXCEPT ![p] =
                      constructPrompt(readNotesOrDefault(notesFile),
                                      state[p].TotalIterations, opts[p].maxIterations)]
               /\ IF opts[p].dryRun
                  THEN /\ finalStatus' = [finalStatus EXCEPT ![p] = "dry_run"]
                       /\ stdout' = Emit(p, <<"--- DRY RUN: Constructed Prompt ---",
                                              "prompt", "--- END DRY RUN ---">>)
                       /\ pc' = [pc EXCEPT ![p] = Leave(p)]
                  ELSE /\ pc' = [pc EXCEPT ![p] = "invoke"]
                       /\ UNCHANGED <<finalStatus, stdout>>
               /\ UNCHANGED retErr
               /\ fileOps' = [fileOps EXCEPT ![p] = @ \cup {"notes.read"}]
    /\ UNCHANGED <<lock, lock0, alive, acqVars, sigVars, exit, histVars,
                   opts, iter, state, output, runErr, calls, checked, completeAt,
                   envVars,
                   appended, noteErr, relFailed, runs, call, cli, configFile>>

\* (mutant of Invoke: a runner error ends the run)
Invoke_ErrorFatal(p) ==
    /\ pc[p] = "invoke"
    /\ \E r \in RunResults :
          /\ output' = [output EXCEPT ![p] = r.output]
          /\ runErr' = [runErr EXCEPT ![p] = r.err]
          /\ completeAt' = [completeAt EXCEPT ![p] =
                 IF completeAt[p] = 0 /\ isComplete(r.output) THEN calls[p] + 1
                 ELSE completeAt[p]]
          /\ retErr' = [retErr EXCEPT ![p] = IF r.err THEN "runner" ELSE @]
          /\ pc' = [pc EXCEPT ![p] = IF r.err THEN Leave(p) ELSE "extract"]
    /\ calls' = [calls EXCEPT ![p] = calls[p] + 1]
    /\ UNCHANGED <<lock, lock0, alive, acqVars, sigVars, exit, histVars,
                   opts, iter, state, finalStatus, prompt, checked,
                   envVars,
                   auxVars>>

\* output, runErr := runner.Run(...)
Invoke(p) ==
    /\ pc[p] = "invoke"
    /\ \E r \in RunResults :
          /\ output' = [output EXCEPT ![p] = r.output]
          /\ runErr' = [runErr EXCEPT ![p] = r.err]
          /\ stdout' = IF opts[p].verbose \/ opts[p].quiet THEN Emit(p, r.output)
                       ELSE stdout
          /\ completeAt' = [completeAt EXCEPT ![p] =
                 IF completeAt[p] = 0 /\ isComplete(r.output) THEN calls[p] + 1
                 ELSE completeAt[p]]
    /\ calls' = [calls EXCEPT ![p] = calls[p] + 1]
    /\ pc' = [pc EXCEPT ![p] = "extract"]
    /\ UNCHANGED <<lock, lock0, alive, acqVars, sigVars, exit, histVars,
                   opts, iter, state, finalStatus, retErr, prompt, checked,
                   envVars,
                   appended, noteErr, fileOps, relFailed, runs, call, cli, configFile>>

\* (mutant of appendNotes: the file is opened with O_TRUNC, not O_APPEND)
appendNotes_Truncates(f, notes, iteration, t) ==
    <<[iteration |-> iteration, time |-> t, text |-> notes]>>

\* appendNotes: one more section at the end of the journal
appendNotes(f, notes, iteration, t) ==
    Append(f, [iteration |-> iteration, time |-> t, text |-> notes])

\* if notes := extractNotes(output); notes != "" { appendNotes(...) }
\* A failing appendNotes is only warned about.
\* (mutant of Extract: the completion marker is looked at first, and the notes
\* of a completing output are not journaled)
Extract_AfterCompletion(p) ==
    /\ pc[p] = "extract"
    /\ IF extractNotes(output[p]) # <<>> /\ ~isComplete(output[p])
       THEN \E ok \in BOOLEAN :
               /\ notesFile' = IF ok THEN appendNotes(notesFile, extractNotes(output[p]),
                                                      state[p].TotalIterations, now)
                               ELSE notesFile
               /\ noteErr' = [noteErr EXCEPT ![p] = ~ok]
               /\ fileOps' = [fileOps EXCEPT ![p] = @ \cup {"notes.write"}]
       ELSE UNCHANGED <<notesFile, noteErr, fileOps>>
    /\ pc' = [pc EXCEPT ![p] = "record"]
    /\ UNCHANGED <<lock, lock0, alive, acqVars, sigVars, exit, histVars,
                   loopVars, stateFile, now, ticks,
                   appended, relFailed, runs, call, cli, stdout, configFile>>

Extract(p) ==
    /\ pc[p] = "extract"
    /\ IF extractNotes(output[p]) # <<>>
       THEN \E ok \in BOOLEAN :
               /\ notesFile' = IF ok THEN appendNotes(notesFile, extractNotes(output[p]),
                                                      state[p].TotalIterations, now)
                               ELSE notesFile
               /\ noteErr' = [noteErr EXCEPT ![p] = ~ok]
               /\ fileOps' = [fileOps EXCEPT ![p] = @ \cup {"notes.write"}]
       ELSE UNCHANGED <<notesFile, noteErr, fileOps>>
    /\ pc' = [pc EXCEPT ![p] = "record"]
    /\ UNCHANGED <<lock, lock0, alive, acqVars, sigVars, exit, histVars,
                   loopVars, stateFile, now, ticks,
                   appended, relFailed, runs, call, cli, stdout, configFile>>

\* (mutant of Record: the completing iteration is recorded and saved too)
Record_CompleteRecorded(p) ==
    /\ pc[p] = "record"
    /\ state' = [state EXCEPT
           ![p].Timestamps = pruneOldTimestamps(Append(@, now), now),
           ![p].LastRun = now]
    /\ appended' = [appended EXCEPT ![p] = @ + 1]
    /\ IF isComplete(output[p])
       THEN /\ finalStatus' = [finalStatus EXCEPT ![p] = "complete"]
            /\ stateFile' = saveState(state'[p])
            /\ pc' = [pc EXCEPT ![p] = Leave(p)]
       ELSE /\ pc' = [pc EXCEPT ![p] = "save"]
            /\ UNCHANGED <<finalStatus, stateFile>>
    /\ UNCHANGED <<lock, lock0, alive, acqVars, sigVars, exit, histVars,
                   opts, iter, retErr, prompt, output, runErr, calls, checked,
                   completeAt, notesFile, now, ticks,
                   noteErr, fileOps, relFailed, runs, call, cli, stdout, configFile>>

\* (mutant of Record: completion does not end the run)
Record_NoStop(p) ==
    /\ pc[p] = "record"
    /\ state' = [state EXCEPT
           ![p].Timestamps = pruneOldTimestamps(Append(@, now), now),
           ![p].LastRun = now]
    /\ appended' = [appended EXCEPT ![p] = @ + 1]
    /\ pc' = [pc EXCEPT ![p] = "save"]
    /\ UNCHANGED <<lock, lock0, alive, acqVars, sigVars, exit, histVars,
                   opts, iter, finalStatus, retErr, prompt, output, runErr, calls,
                   checked, completeAt, envVars,
                   noteErr, fileOps, relFailed, runs, call, cli, stdout, configFile>>

\* if isComplete(output) return; else append the timestamp, set LastRun, prune
Record(p) ==
    /\ pc[p] = "record"
    /\ IF isComplete(output[p])
       THEN /\ finalStatus' = [finalStatus EXCEPT ![p] = "complete"]
            /\ stdout' = Report(p, <<"Received COMPLETE signal from opencode!">>)
            /\ pc' = [pc EXCEPT ![p] = Leave(p)]
            /\ UNCHANGED <<state, appended>>
       ELSE /\ state' = [state EXCEPT
                   ![p].Timestamps = pruneOldTimestamps(Append(@, now), now),
                   ![p].LastRun = now]
            /\ appended' = [appended EXCEPT ![p] = @ + 1]
            /\ pc' = [pc EXCEPT ![p] = "save"]
            /\ UNCHANGED <<finalStatus, stdout>>
    /\ UNCHANGED <<lock, lock0, alive, acqVars, sigVars, exit, histVars,
                   opts, iter, retErr, prompt, output, runErr, calls, checked,
                   completeAt, envVars,
                   noteErr, fileOps, relFailed, runs, call, cli, configFile>>

\* saveState(state); time.Sleep(delay); i++: the iteration's locals go out of
\* scope
Save(p) ==
    /\ pc[p] = "save"
    /\ stateFile' = saveState(state[p])
    /\ iter' = [iter EXCEPT ![p] = iter[p] + 1]
    /\ output' = [output EXCEPT ![p] = <<>>]
    /\ runErr' = [runErr EXCEPT ![p] = FALSE]
    /\ fileOps' = [fileOps EXCEPT ![p] = @ \cup {"state.write"}]
    /\ noteErr' = [noteErr EXCEPT ![p] = FALSE]
    /\ pc' = [pc EXCEPT ![p] = "loop"]
    /\ UNCHANGED <<lock, lock0, alive, acqVars, sigVars, exit, histVars,
                   opts, state, finalStatus, retErr, prompt,
                   calls, checked, completeAt, notesFile, now, ticks,
                   appended, relFailed, runs, call, cli, stdout, configFile>>

\* the deferred func() { releaseLock(lockFile) }
DeferRelease(p) ==
    /\ pc[p] = "d_release"
    /\ releaseLock(p)
    /\ pc' = [pc EXCEPT ![p] = "d_stop"]
    /\ UNCHANGED <<lock0, alive, acqVars, sigVars, exit, closes, sigs, sigHeld,
                   loopVars, envVars,
                   appended, noteErr, fileOps, runs, call, cli, stdout, configFile>>

\* runIterationsWithRunner returns: the deferred summary runs last, then main
\* returns, or calls os.Exit(1) on an error
ProcExit(p) ==
    /\ pc[p] = "returned"
    /\ stdout' = Emit(p, Summary(p))
    /\ Terminate(p, "return", IF retErr[p] = "nil" THEN 0 ELSE 1)
    /\ UNCHANGED <<lock, lock0, acqVars, notify, sigchan, doneClosed, once, lsig,
                   histVars, loopVars, envVars,
                   appended, noteErr, fileOps, relFailed, runs, call, cli, configFile>>

\* time passes while a run waits for the runner or sleeps between iterations
Tick ==
    /\ ticks < MaxTicks
    /\ \E p \in alive : pc[p] \in {"invoke", "loop"}
    /\ \E d \in {1, Hour, Day} : now' = now + d
    /\ ticks' = ticks + 1
    /\ UNCHANGED <<lock, lock0, alive, pc, acqVars, sigVars, exit, histVars,
                   loopVars, stateFile, notesFile,
                   auxVars>>

run(p) ==
    \/ RunStart(p)
    \/ acquireLock(p)
    \/ AfterAcquire(p)
    \/ installLockSignalHandler(p)
    \/ LoadState(p)
    \/ IterBegin(p)
    \/ SaveRateLimited(p)
    \/ Build(p)
    \/ Invoke(p)
    \/ Extract(p)
    \/ Record(p)
    \/ Save(p)
    \/ DeferRelease(p)
    \/ StopSignalStop(p)
    \/ StopClose(p)
    \/ ProcExit(p)
    \/ listener(p)

\* ------------------------------------------------------- specifications
\* the lock files a run may find when it starts
InitialLocks ==
    {Absent, EmptyFile, Garbage, PidFile(0), PidFile(StalePid), PidFile(ForeignPid)}
        \cup {PidFile(p) : p \in Procs}

InitSignals ==
    /\ notify = [p \in Procs |-> FALSE]
    /\ sigchan = [p \in Procs |-> <<>>]
    /\ doneClosed = [p \in Procs |-> FALSE]
    /\ once = [p \in Procs |-> FALSE]
    /\ lpc = [p \in Procs |-> "none"]
    /\ lsig = [p \in Procs |-> "none"]
    /\ exit = [p \in Procs |-> Running]
    /\ closes = [p \in Procs |-> 0]
    /\ releases = [p \in Procs |-> 0]
    /\ sigs = [p \in Procs |-> 0]
    /\ sigHeld = [p \in Procs |-> FALSE]
    /\ relFailed = [p \in Procs |-> FALSE]

NoOpts == [maxIterations |-> 0, maxPerHour |-> 0, maxPerDay |-> 0, dryRun |-> FALSE,
           quiet |-> FALSE, verbose |-> FALSE]

\* no command line: the function is entered directly
NoCli == [command |-> "none", config |-> 0, flag |-> -1,
          configPerHour |-> 0, flagPerHour |-> -1, configPerDay |-> 0, flagPerDay |-> -1]
NoPrompt == [notes |-> [text |-> "", sections |-> <<>>], iteration |-> 0,
             maxIterations |-> 0]
NoCheck == [timestamps |-> <<>>, now |-> 0, calls |-> 0, file |-> NoStateFile]

\* ------------------------------------------------------- configuration
\* the keys of .ralph/config.json; a string value is a sequence of characters
StringKeys == {"prompt_file", "conventions_file", "specs_file", "model"}
IntKeys == {"max_iterations", "max_per_hour", "max_per_day"}
Keys == StringKeys \cup IntKeys

DefaultConfig ==
    [k \in Keys |->
        CASE k = "prompt_file" -> <<"PROMPT.md">>
          [] k = "conventions_file" -> <<"CONVENTIONS.md">>
          [] k = "specs_file" -> <<"SPECS.md">>
          [] k = "model" -> <<>>
          [] k = "max_iterations" -> 50
          [] OTHER -> 0]

NoConfigFile == [kind |-> "absent", cfg |-> DefaultConfig]

\* LoadConfig: the defaults when the file cannot be read
LoadConfig(f) == IF f.kind = "json" THEN f.cfg ELSE DefaultConfig

\* SaveConfig: os.WriteFile of the marshalled configuration
SaveConfig(cfg) == [kind |-> "json", cfg |-> cfg]

\* parseInt: fmt.Sscanf(value, "%d", &v) reads the digits the value starts
\* with and leaves the rest of the value unread; no digit is an error
Digits == {"1", "2"}

DigitValue(c) == IF c = "1" THEN 1 ELSE 2

LeadingDigits(value) ==
    LET Stops == {k \in 1..Len(value) : value[k] \notin Digits}
    IN IF Stops = {} THEN Len(value)
       ELSE (CHOOSE k \in Stops : \A m \in Stops : k <= m) - 1

RECURSIVE Decimal(_, _)
Decimal(value, k) ==
    IF k = 0 THEN 0 ELSE 10 * Decimal(value, k - 1) + DigitValue(value[k])

parseInt(value) ==
    IF LeadingDigits(value) = 0 THEN [v |-> 0, err |-> TRUE]
    ELSE [v |-> Decimal(value, LeadingDigits(value)), err |-> FALSE]

\* ConfigSet(key, value): the configuration to save, or an error
ConfigSet(f, key, value) ==
    IF key \in StringKeys THEN [cfg |-> [LoadConfig(f) EXCEPT ![key] = value], err |-> FALSE]
    ELSE IF key \in IntKeys
    THEN IF parseInt(value).err THEN [cfg |-> LoadConfig(f), err |-> TRUE]
         ELSE [cfg |-> [LoadConfig(f) EXCEPT ![key] = parseInt(value).v], err |-> FALSE]
    ELSE [cfg |-> LoadConfig(f), err |-> TRUE]

\* no function is called on its own
NoCall == [fn |-> "none", ts |-> <<>>, t |-> 0, hourCount |-> 0, dayCount |-> 0,
           kept |-> <<>>, out |-> <<>>, notes |-> <<>>, complete |-> FALSE,
           n |-> 0, key |-> "", value |-> <<>>, err |-> FALSE, before |-> NoConfigFile]

InitLoop ==
    /\ iter = [p \in Procs |-> 0]
    /\ state = [p \in Procs |-> EmptyState]
    /\ finalStatus = [p \in Procs |-> "unknown"]
    /\ retErr = [p \in Procs |-> "nil"]
    /\ prompt = [p \in Procs |-> NoPrompt]
    /\ output = [p \in Procs |-> <<>>]
    /\ runErr = [p \in Procs |-> FALSE]
    /\ calls = [p \in Procs |-> 0]
    /\ checked = [p \in Procs |-> NoCheck]
    /\ completeAt = [p \in Procs |-> 0]
    /\ now = T0
    /\ ticks = 0
    /\ runs = 1
    /\ call = NoCall
    /\ cli = [p \in Procs |-> NoCli]
    /\ stdout = [p \in Procs |-> <<>>]
    /\ configFile = NoConfigFile
    /\ appended = [p \in Procs |-> 0]
    /\ noteErr = [p \in Procs |-> FALSE]
    /\ fileOps = [p \in Procs |-> {}]

\* SpecLock: every process of Procs calls acquireLock once, concurrently.
InitLock ==
    /\ lock \in InitialLocks
    /\ lock0 = lock
    /\ alive = Procs
    /\ pc = [p \in Procs |-> "acq_open"]
    /\ attempts = [p \in Procs |-> 0]
    /\ pid = [p \in Procs |-> 0]
    /\ locked = [p \in Procs |-> FALSE]
    /\ acqErr = [p \in Procs |-> "nil"]
    /\ InitSignals
    /\ InitLoop
    /\ opts = [p \in Procs |-> NoOpts]
    /\ stateFile = NoStateFile
    /\ notesFile = <<>>

NextLock == \E p \in Procs : acquireLock(p)

SpecLock == InitLock /\ [][NextLock]_vars

\* the state files a run may find when it starts
InitialTimestamps ==
    { <<T0 - 1800>>, <<T0 - Hour>>, <<T0 - 90000, T0 - 7200>> }

InitialStateFiles ==
    {NoStateFile, BadStateFile}
        \cup {JsonState([TotalIterations |-> Len(ts), Timestamps |-> ts,
                         LastRun |-> IF ts = <<>> THEN 0 ELSE ts[Len(ts)]]) :
                 ts \in InitialTimestamps}

Runners == {1}

\* the options a run is given
OptionSets ==
    [maxIterations : 0..MaxIter, maxPerHour : 0..MaxRate, maxPerDay : 0..MaxRate,
     dryRun : BOOLEAN, quiet : {FALSE}, verbose : {FALSE}]

InitRunner(locks, options, stateFiles) ==
    /\ lock \in locks
    /\ lock0 = lock
    /\ alive = Runners
    /\ pc = [p \in Procs |-> IF p \in Runners THEN "start" ELSE "idle"]
    /\ attempts = [p \in Procs |-> 0]
    /\ pid = [p \in Procs |-> 0]
    /\ locked = [p \in Procs |-> FALSE]
    /\ acqErr = [p \in Procs |-> "nil"]
    /\ InitSignals
    /\ InitLoop
    /\ \E o \in options : opts = [p \in Procs |-> IF p \in Runners THEN o ELSE NoOpts]
    /\ stateFile \in stateFiles
    /\ notesFile = <<>>

\* SpecSignal: one process runs the command, from start to exit, and may be
\* sent SIGINT and SIGTERM at any moment.
SignalOptions == {o \in OptionSets : o.maxPerDay = 0}

InitSignal == InitRunner(InitialLocks, SignalOptions, {NoStateFile})

NextSignal ==
    \/ \E p \in Procs : run(p)
    \/ \E p \in Procs, s \in Signals : Deliver(p, s)

SpecSignal == InitSignal /\ [][NextSignal]_vars

\* SpecLoop: one process runs the command, from start to exit, and no signal
\* arrives: the listener can only take its done branch.
InitRun == InitRunner({Absent, PidFile(StalePid), PidFile(ForeignPid)},
                      OptionSets, InitialStateFiles)

runNoSignal(p) ==
    \/ RunStart(p)
    \/ acquireLock(p)
    \/ AfterAcquire(p)
    \/ installLockSignalHandler(p)
    \/ LoadState(p)
    \/ IterBegin(p)
    \/ SaveRateLimited(p)
    \/ Build(p)
    \/ Invoke(p)
    \/ Extract(p)
    \/ Record(p)
    \/ Save(p)
    \/ DeferRelease(p)
    \/ StopSignalStop(p)
    \/ StopClose(p)
    \/ ProcExit(p)
    \/ ListenerDone(p)

NextRun ==
    \/ \E p \in Procs : runNoSignal(p)
    \/ Tick

SpecRun == InitRun /\ [][NextRun]_vars

\* SpecRuns: the command is run several times in one working directory, one
\* run after the other has exited, each with its own options; no signal
\* arrives.  The next process finds the files as the last one left them; the
\* pid of the last one no longer names a running process.
MaxRuns == 2           \* how many runs of the command are started

LeftBehind(f, p) ==
    IF f.kind = "int" /\ f.pid = p THEN PidFile(StalePid)
    ELSE IF f.ino = p THEN [f EXCEPT !.ino = 0]
    ELSE f

RunsOptions == {o \in OptionSets : o.maxPerDay = 0}

InitRuns == InitRunner({Absent, PidFile(StalePid)}, RunsOptions,
                       {NoStateFile, BadStateFile})

\* the command is started again by the process that has exited, with options
\* drawn from the given set
NewRunWith(p, options) ==
    /\ runs < MaxRuns
    /\ pc[p] = "exited"
    /\ runs' = runs + 1
    /\ lock' = LeftBehind(lock, p)
    /\ lock0' = lock'
    /\ alive' = alive \cup {p}
    /\ pc' = [pc EXCEPT ![p] = "start"]
    /\ attempts' = [attempts EXCEPT ![p] = 0]
    /\ pid' = [pid EXCEPT ![p] = 0]
    /\ locked' = [locked EXCEPT ![p] = FALSE]
    /\ acqErr' = [acqErr EXCEPT ![p] = "nil"]
    /\ notify' = [notify EXCEPT ![p] = FALSE]
    /\ sigchan' = [sigchan EXCEPT ![p] = <<>>]
    /\ doneClosed' = [doneClosed EXCEPT ![p] = FALSE]
    /\ once' = [once EXCEPT ![p] = FALSE]
    /\ lpc' = [lpc EXCEPT ![p] = "none"]
    /\ lsig' = [lsig EXCEPT ![p] = "none"]
    /\ exit' = [exit EXCEPT ![p] = Running]
    /\ closes' = [closes EXCEPT ![p] = 0]
    /\ releases' = [releases EXCEPT ![p] = 0]
    /\ sigs' = [sigs EXCEPT ![p] = 0]
    /\ sigHeld' = [sigHeld EXCEPT ![p] = FALSE]
    /\ \E o \in options : opts' = [opts EXCEPT ![p] = o]
    /\ iter' = [iter EXCEPT ![p] = 0]
    /\ state' = [state EXCEPT ![p] = EmptyState]
    /\ finalStatus' = [finalStatus EXCEPT ![p] = "unknown"]
    /\ retErr' = [retErr EXCEPT ![p] = "nil"]
    /\ prompt' = [prompt EXCEPT ![p] = NoPrompt]
    /\ output' = [output EXCEPT ![p] = <<>>]
    /\ runErr' = [runErr EXCEPT ![p] = FALSE]
    /\ calls' = [calls EXCEPT ![p] = 0]
    /\ checked' = [checked EXCEPT ![p] = NoCheck]
    /\ completeAt' = [completeAt EXCEPT ![p] = 0]
    /\ appended' = [appended EXCEPT ![p] = 0]
    /\ noteErr' = [noteErr EXCEPT ![p] = FALSE]
    /\ fileOps' = [fileOps EXCEPT ![p] = {}]
    /\ relFailed' = [relFailed EXCEPT ![p] = FALSE]
    /\ stdout' = [stdout EXCEPT ![p] = <<>>]
    /\ UNCHANGED <<stateFile, notesFile, now, ticks, call, cli, configFile>>

NewRun(p) == NewRunWith(p, RunsOptions)

NextRuns ==
    \/ \E p \in Procs : runNoSignal(p)
    \/ \E p \in Procs : NewRun(p)

SpecRuns == InitRuns /\ [][NextRuns]_vars

\* SpecSignalFair: one process runs the command for at most one iteration and
\* may be sent SIGINT and SIGTERM at any moment, with a scheduler that does
\* not starve the listener goroutine: a step the listener can take is taken
\* in the end.
FairOptions == {o \in SignalOptions : o.maxIterations <= 1}

InitSignalFair ==
    InitRunner({Absent, PidFile(StalePid)}, FairOptions,
               {NoStateFile,
                JsonState([TotalIterations |-> 1, Timestamps |-> <<T0 - 1800>>,
                           LastRun |-> T0 - 1800])})

SpecSignalFair ==
    InitSignalFair /\ [][NextSignal]_vars /\ \A p \in Procs : WF_vars(listener(p))

\* SpecRelease: the processes of Procs call releaseLock on the lock file, each
\* up to MaxCalls times, in any order; nothing creates the file.
MaxCalls == 2          \* calls of releaseLock one process makes

ReleaseCall(p) ==
    /\ pc[p] = "idle"
    /\ releases[p] < MaxCalls
    /\ releaseLock(p)
    /\ UNCHANGED <<lock0, alive, pc, acqVars, sigVars, exit, closes, sigs, sigHeld,
                   loopVars, envVars,
                   appended, noteErr, fileOps, runs, call, cli, stdout, configFile>>

InitRelease ==
    /\ lock \in InitialLocks
    /\ lock0 = lock
    /\ alive = Procs
    /\ pc = [p \in Procs |-> "idle"]
    /\ attempts = [p \in Procs |-> 0]
    /\ pid = [p \in Procs |-> 0]
    /\ locked = [p \in Procs |-> FALSE]
    /\ acqErr = [p \in Procs |-> "nil"]
    /\ InitSignals
    /\ InitLoop
    /\ opts = [p \in Procs |-> NoOpts]
    /\ stateFile = NoStateFile
    /\ notesFile = <<>>

NextRelease == \E p \in Procs : ReleaseCall(p)

SpecRelease == InitRelease /\ [][NextRelease]_vars

\* SpecProbe: the processes of Procs call acquireLock on a lock file that
\* holds an owner pid: of a running process of this user, of another user's
\* process, of no process, or one the probe answers with another error.
OwnerIds == Procs \cup {StalePid, ForeignPid, OtherErrPid}

InitProbe ==
    /\ lock \in {PidFile(n) : n \in OwnerIds}
    /\ lock0 = lock
    /\ alive = Procs
    /\ pc = [p \in Procs |-> "acq_open"]
    /\ attempts = [p \in Procs |-> 0]
    /\ pid = [p \in Procs |-> 0]
    /\ locked = [p \in Procs |-> FALSE]
    /\ acqErr = [p \in Procs |-> "nil"]
    /\ InitSignals
    /\ InitLoop
    /\ opts = [p \in Procs |-> NoOpts]
    /\ stateFile = NoStateFile
    /\ notesFile = <<>>

SpecProbe == InitProbe /\ [][NextLock]_vars

\* ------------------------------------------------ functions on their own
\* the state of a specification in which no process runs the command
InitCalls ==
    /\ lock = Absent
    /\ lock0 = lock
    /\ alive = Procs
    /\ pc = [p \in Procs |-> "idle"]
    /\ attempts = [p \in Procs |-> 0]
    /\ pid = [p \in Procs |-> 0]
    /\ locked = [p \in Procs |-> FALSE]
    /\ acqErr = [p \in Procs |-> "nil"]
    /\ InitSignals
    /\ opts = [p \in Procs |-> NoOpts]
    /\ iter = [p \in Procs |-> 0]
    /\ state = [p \in Procs |-> EmptyState]
    /\ finalStatus = [p \in Procs |-> "unknown"]
    /\ retErr = [p \in Procs |-> "nil"]
    /\ prompt = [p \in Procs |-> NoPrompt]
    /\ output = [p \in Procs |-> <<>>]
    /\ runErr = [p \in Procs |-> FALSE]
    /\ calls = [p \in Procs |-> 0]
    /\ checked = [p \in Procs |-> NoCheck]
    /\ completeAt = [p \in Procs |-> 0]
    /\ now = T0
    /\ ticks = 0
    /\ appended = [p \in Procs |-> 0]
    /\ noteErr = [p \in Procs |-> FALSE]
    /\ fileOps = [p \in Procs |-> {}]
    /\ runs = 1
    /\ cli = [p \in Procs |-> NoCli]
    /\ stdout = [p \in Procs |-> <<>>]
    /\ configFile = NoConfigFile
    /\ stateFile = NoStateFile
    /\ notesFile = <<>>

\* SpecLimiter: countRecentIterations and pruneOldTimestamps are called on a
\* list of up to MaxLen timestamps, at a clock value t: 25, 24 and 23 hours,
\* 2 hours, 1 hour and 30 minutes before T0, T0 itself and a minute after it.
MaxLen == 3            \* the longest timestamp list

Instants == {T0 - Day - Hour, T0 - Day, T0 - Day + Hour, T0 - 2 * Hour,
             T0 - Hour, T0 - 1800, T0, T0 + 60}

RECURSIVE ListsOf(_, _)
ListsOf(S, n) ==
    IF n = 0 THEN {<<>>}
    ELSE LET shorter == ListsOf(S, n - 1)
         IN shorter \cup {Append(l, x) : l \in {m \in shorter : Len(m) = n - 1}, x \in S}

InitLimiter ==
    /\ InitCalls
    /\ \E ts \in ListsOf(Instants, MaxLen), t \in {T0, T0 + 1800} :
          call = [NoCall EXCEPT !.ts = ts, !.t = t]

CallCount ==
    /\ call.fn = "none"
    /\ LET c == countRecentIterations(call.ts, call.t)
       IN call' = [call EXCEPT !.fn = "countRecentIterations",
                               !.hourCount = c.hourCount, !.dayCount = c.dayCount]
    /\ UNCHANGED <<lock, lock0, alive, pc, acqVars, sigVars, exit, histVars,
                   loopVars, envVars,
                   appended, noteErr, fileOps, relFailed, runs, cli, stdout, configFile>>

CallPrune ==
    /\ call.fn = "none"
    /\ call' = [call EXCEPT !.fn = "pruneOldTimestamps",
                            !.kept = pruneOldTimestamps(call.ts, call.t)]
    /\ UNCHANGED <<lock, lock0, alive, pc, acqVars, sigVars, exit, histVars,
                   loopVars, envVars,
                   appended, noteErr, fileOps, relFailed, runs, cli, stdout, configFile>>

NextLimiter == CallCount \/ CallPrune

SpecLimiter == InitLimiter /\ [][NextLimiter]_vars

\* SpecExtract: extractNotes and isComplete are called on an agent output of
\* up to MaxTokens tokens: the four tags, a newline, and the words COMPLETE,
\* Complete and INCOMPLETE.
MaxTokens == 5         \* the longest agent output, in tokens

Tokens == {"<ralph_notes>", "</ralph_notes>", "<ralph_status>", "</ralph_status>",
           "\n", "COMPLETE", "Complete", "INCOMPLETE"}

InitExtract ==
    /\ InitCalls
    /\ \E out \in ListsOf(Tokens, MaxTokens) : call = [NoCall EXCEPT !.out = out]

CallExtractNotes ==
    /\ call.fn = "none"
    /\ call' = [call EXCEPT !.fn = "extractNotes", !.notes = extractNotes(call.out)]
    /\ UNCHANGED <<lock, lock0, alive, pc, acqVars, sigVars, exit, histVars,
                   loopVars, envVars,
                   appended, noteErr, fileOps, relFailed, runs, cli, stdout, configFile>>

CallIsComplete ==
    /\ call.fn = "none"
    /\ call' = [call EXCEPT !.fn = "isComplete", !.complete = isComplete(call.out)]
    /\ UNCHANGED <<lock, lock0, alive, pc, acqVars, sigVars, exit, histVars,
                   loopVars, envVars,
                   appended, noteErr, fileOps, relFailed, runs, cli, stdout, configFile>>

NextExtract == CallExtractNotes \/ CallIsComplete

SpecExtract == InitExtract /\ [][NextExtract]_vars

\* SpecOutcome: the two processes of Callers run the command in the same
\* directory, each with its own options, quiet and verbose among them;
\* RunWithOptions makes verbose true when quiet is, and both false in a dry
\* run.
Callers == {1, 2}

OutcomeOptions ==
    {o \in [maxIterations : {1}, maxPerHour : {0, 1}, maxPerDay : {0},
            dryRun : BOOLEAN, quiet : BOOLEAN, verbose : BOOLEAN] :
        /\ o.quiet => o.verbose
        /\ o.dryRun => ~o.quiet /\ ~o.verbose}

InitOutcome ==
    /\ lock = Absent
    /\ lock0 = lock
    /\ alive = Callers
    /\ pc = [p \in Procs |-> IF p \in Callers THEN "start" ELSE "idle"]
    /\ attempts = [p \in Procs |-> 0]
    /\ pid = [p \in Procs |-> 0]
    /\ locked = [p \in Procs |-> FALSE]
    /\ acqErr = [p \in Procs |-> "nil"]
    /\ InitSignals
    /\ InitLoop
    /\ \E o \in [Callers -> OutcomeOptions] :
          opts = [p \in Procs |-> IF p \in Callers THEN o[p] ELSE NoOpts]
    /\ stateFile = NoStateFile
    /\ notesFile = <<>>

NextOutcome == \E p \in Procs : runNoSignal(p)

SpecOutcome == InitOutcome /\ [][NextOutcome]_vars

\* ------------------------------------------------------- command line
\* newManualCmd: opts := &ralph.RunOptions{MaxIterations: 1};
\* newRunCmd: opts := &ralph.RunOptions{}
newCmd(command) == IF command = "manual" THEN 1 ELSE 0

\* bindRunFlags: cmd.Flags().IntVar(&opts.MaxIterations, "max-iterations",
\* cfg.MaxIterations, ...) stores the default, cfg.MaxIterations, in the
\* variable the flag is bound to: what the variable held is overwritten
bindRunFlags(maxIterations, config) == config

\* cobra parses the command line: a --max-iterations flag sets the variable
\* (flag = -1: the flag is not given)
ParseFlags(maxIterations, flag) == IF flag = -1 THEN maxIterations ELSE flag

\* RunWithOptions: maxIterations := opts.MaxIterations; if it is 0, the
\* default, cfg.MaxIterations; maxPerHour and maxPerDay likewise
RunWithOptions(maxIterations, defaultMaxIterations) ==
    IF maxIterations = 0 THEN defaultMaxIterations ELSE maxIterations

\* the command p was started with runs: the RunE of manual or run
Execute(p) ==
    /\ pc[p] = "cmd"
    /\ opts' = [opts EXCEPT
           ![p].maxIterations =
               RunWithOptions(ParseFlags(bindRunFlags(newCmd(cli[p].command), cli[p].config),
                                         cli[p].flag),
                              cli[p].config),
           ![p].maxPerHour =
               RunWithOptions(ParseFlags(bindRunFlags(0, cli[p].configPerHour),
                                         cli[p].flagPerHour),
                              cli[p].configPerHour),
           ![p].maxPerDay =
               RunWithOptions(ParseFlags(bindRunFlags(0, cli[p].configPerDay),
                                         cli[p].flagPerDay),
                              cli[p].configPerDay)]
    /\ pc' = [pc EXCEPT ![p] = "start"]
    /\ UNCHANGED <<lock, lock0, alive, acqVars, sigVars, exit, histVars,
                   iter, state, finalStatus, retErr, prompt, output, runErr,
                   calls, checked, completeAt, envVars,
                   auxVars>>

\* SpecCommand: one process is started as `manual` or `run`, with the
\* configuration's max_iterations between 0 and MaxIter and the
\* --max-iterations flag absent or between 0 and MaxIter, and likewise
\* max_per_hour, max_per_day and their flags between 0 and MaxRate.
CommandLines ==
    [command : {"manual", "run"}, config : 0..MaxIter, flag : {-1} \cup (0..MaxIter),
     configPerHour : 0..MaxRate, flagPerHour : {-1} \cup (0..MaxRate),
     configPerDay : 0..MaxRate, flagPerDay : {-1} \cup (0..MaxRate)]

InitCommand ==
    /\ lock \in {Absent, PidFile(StalePid)}
    /\ lock0 = lock
    /\ alive = Runners
    /\ pc = [p \in Procs |-> IF p \in Runners THEN "cmd" ELSE "idle"]
    /\ attempts = [p \in Procs |-> 0]
    /\ pid = [p \in Procs |-> 0]
    /\ locked = [p \in Procs |-> FALSE]
    /\ acqErr = [p \in Procs |-> "nil"]
    /\ InitSignals
    /\ iter = [p \in Procs |-> 0]
    /\ state = [p \in Procs |-> EmptyState]
    /\ finalStatus = [p \in Procs |-> "unknown"]
    /\ retErr = [p \in Procs |-> "nil"]
    /\ prompt = [p \in Procs |-> NoPrompt]
    /\ output = [p \in Procs |-> <<>>]
    /\ runErr = [p \in Procs |-> FALSE]
    /\ calls = [p \in Procs |-> 0]
    /\ checked = [p \in Procs |-> NoCheck]
    /\ completeAt = [p \in Procs |-> 0]
    /\ now = T0
    /\ ticks = 0
    /\ runs = 1
    /\ call = NoCall
    /\ stdout = [p \in Procs |-> <<>>]
    /\ configFile = NoConfigFile
    /\ appended = [p \in Procs |-> 0]
    /\ noteErr = [p \in Procs |-> FALSE]
    /\ fileOps = [p \in Procs |-> {}]
    /\ \E c \in CommandLines : cli = [p \in Procs |-> IF p \in Runners THEN c ELSE NoCli]
    /\ \E d \in BOOLEAN :
          opts = [p \in Procs |-> IF p \in Runners THEN [NoOpts EXCEPT !.dryRun = d]
                                  ELSE NoOpts]
    /\ stateFile \in {NoStateFile,
                      JsonState([TotalIterations |-> 1, Timestamps |-> <<T0 - 1800>>,
                                 LastRun |-> T0 - 1800])}
    /\ notesFile = <<>>

NextCommand ==
    \/ \E p \in Procs : Execute(p)
    \/ \E p \in Procs : runNoSignal(p)

SpecCommand == InitCommand /\ [][NextCommand]_vars

\* SpecJournal: up to MaxRuns consecutive runs of at least one iteration
\* each, none of them a dry run, starting with no lock file, no state file
\* and an empty journal.
JournalOptions == {o \in RunsOptions : o.maxIterations >= 1 /\ ~o.dryRun}

InitJournal == InitRunner({Absent}, JournalOptions, {NoStateFile})

NewJournalRun(p) == NewRunWith(p, JournalOptions)

NextJournal ==
    \/ \E p \in Procs : runNoSignal(p)
    \/ \E p \in Procs : NewJournalRun(p)

SpecJournal == InitJournal /\ [][NextJournal]_vars

\* SpecConfig: ConfigSet is called up to MaxSets times, starting with no
\* configuration file, with any key, known or not, and a value of up to
\* MaxChars characters; SaveConfig may fail.
MaxSets == 2           \* calls of ConfigSet
MaxChars == 2          \* the longest value

Chars == Digits \cup {"x"}

InitConfig == InitCalls /\ call = NoCall

CallConfigSet ==
    /\ call.n < MaxSets
    /\ \E key \in Keys \cup {"unknown_key"}, value \in ListsOf(Chars, MaxChars),
          saved \in BOOLEAN :
          LET r == ConfigSet(configFile, key, value)
          IN /\ configFile' = IF ~r.err /\ saved THEN SaveConfig(r.cfg) ELSE configFile
             /\ call' = [call EXCEPT !.fn = "ConfigSet", !.n = @ + 1, !.key = key,
                                     !.value = value, !.err = r.err \/ ~saved,
                                     !.before = configFile]
    /\ UNCHANGED <<lock, lock0, alive, pc, acqVars, sigVars, exit, histVars,
                   loopVars, envVars,
                   appended, noteErr, fileOps, relFailed, runs, cli, stdout>>

NextConfig == CallConfigSet

SpecConfig == InitConfig /\ [][NextConfig]_vars

\* ---------------------------------------------------------------- acquirers that die
\* Concurrent acquireLock calls, any of which may be killed by a signal the
\* process cannot handle (SIGKILL is not among the signals passed to
\* signal.Notify): the process is gone at once and what it wrote to the lock
\* file stays.
Crash(p) ==
    /\ p \in alive
    /\ pc[p] \in {"acq_open", "acq_write", "acq_read", "acq_probe", "acq_remove", "acq_ret"}
    /\ Terminate(p, "killed", 137)
    /\ UNCHANGED <<lock, lock0, acqVars, notify, sigchan, doneClosed, once, lsig,
                   histVars, loopVars, envVars,
                   auxVars>>

NextAcquire ==
    \E p \in Procs :
        \/ acquireLock(p)
        \/ Crash(p)

SpecAcquire == InitLock /\ [][NextAcquire]_vars

\* ================================================================ claims
Holders == {p \in Procs : locked[p]}
AllReturned == \A p \in Procs : pc[p] = "acq_ret"
Contention(p) == ~locked[p] /\ acqErr[p] \in {"exists", "exists_pid"}

\* C1: starting from an absent lock file, in every interleaving of the
\* acquireLock calls of the processes, never two of them have been told
\* they hold the lock, and once all calls have returned exactly one
\* returned success and every other one a contention error.
C1_ExactlyOneAcquires ==
    lock0 = Absent =>
        /\ Cardinality(Holders) <= 1
        /\ AllReturned =>
              /\ Cardinality(Holders) = 1
              /\ \A p \in Procs \ Holders : Contention(p)

C1_Witness ==
    /\ lock0 = Absent
    /\ AllReturned
    /\ \E p, q \in Procs : locked[p] /\ Contention(q)

\* C2: starting from a stale lock file (its owner is not running), in every
\* interleaving of the acquireLock calls at most one returns success.
C2_AtMostOneAcquiresStale ==
    lock0 = PidFile(StalePid) => Cardinality(Holders) <= 1

\* C3: once acquireLock has returned success, a SIGINT or SIGTERM delivered
\* to the process has the lock file removed before the process ends: a
\* process that ended after such a signal has not left its lock behind.
C3_SignalRemovesLock ==
    \A p \in Procs :
        (pc[p] = "exited" /\ locked[p] /\ sigHeld[p]) => lock # Written(p)

\* C4: in every interleaving of the listener with the stop function, close is
\* executed on the done channel at most once, and no goroutine panics.
C4_DoneClosedOnce ==
    \A p \in Procs : closes[p] <= 1 /\ exit[p].how # "panic"

\* C5: within one run releaseLock is executed at most once in total, by the
\* listener or by the deferred call of the normal completion.
C5_ReleasedOnce ==
    \A p \in Procs : releases[p] <= 1

\* C6: when acquireLock succeeded, no signal arrives and os.Remove does not
\* fail, then once runIterationsWithRunner has returned, with whatever outcome
\* or error, the lock file does not exist.
C6_ReturnRemovesLock ==
    \A p \in Procs :
        (pc[p] = "returned" /\ locked[p] /\ sigs[p] = 0 /\ ~relFailed[p]) =>
            lock = Absent

C6_Witness ==
    \E p \in Procs :
        /\ pc[p] = "returned"
        /\ locked[p]
        /\ lock0 = PidFile(StalePid)
        /\ retErr[p] = "specs"
        /\ calls[p] = 1
        /\ ~relFailed[p]
        /\ lock = Absent

\* C7: if the lock file names a process that is not running and no other
\* process is acquiring (none of the others has taken a step), acquireLock
\* returns success and the lock file then holds the caller's own pid.
Alone(p) == \A q \in Procs \ {p} : pc[q] = "acq_open" /\ attempts[q] = 0

C7_StaleLockReplaced ==
    \A p \in Procs :
        (lock0 = PidFile(StalePid) /\ pc[p] = "acq_ret" /\ Alone(p)) =>
            /\ locked[p]
            /\ acqErr[p] = "nil"
            /\ lock = Written(p)

C7_Witness ==
    \E p \in Procs :
        /\ lock0 = PidFile(StalePid)
        /\ pc[p] = "acq_ret"
        /\ Alone(p)
        /\ attempts[p] = 1
        /\ lock = Written(p)

\* C8: when the lock file exists and its owner is a live process (the caller
\* included) or is not readable as a positive pid, every acquireLock call
\* returns (false, error), the error naming the owner pid when it is readable,
\* and the lock file is left as it was.
Unreadable(f) == f.kind \in {"empty", "text"} \/ (f.kind = "int" /\ f.pid <= 0)
LiveOwner(f) == f.kind = "int" /\ f.pid > 0 /\ f.pid \in alive \cup {ForeignPid}

C8_HeldLockRefused ==
    (Unreadable(lock0) \/ LiveOwner(lock0)) =>
        /\ lock = lock0
        /\ \A p \in Procs :
              pc[p] = "acq_ret" =>
                  /\ ~locked[p]
                  /\ Unreadable(lock0) => acqErr[p] = "exists"
                  /\ LiveOwner(lock0) => acqErr[p] = "exists_pid" /\ pid[p] = lock0.pid

C8_Witness ==
    /\ AllReturned
    /\ \E p, q \in Procs :
          /\ lock0 = PidFile(p)
          /\ acqErr[p] = "exists_pid"
          /\ acqErr[q] = "exists_pid"
          /\ p # q

\* C9: an iteration goes past its admission check only when neither limit
\* is reached; when one is reached the run ends with outcome rate_limited,
\* the runner is not invoked in that iteration, and the timestamps in memory
\* and, once saved, in the state file are those held before the check.
Limited(p) ==
    LET c == countRecentIterations(checked[p].timestamps, checked[p].now)
    IN \/ opts[p].maxPerHour > 0 /\ c.hourCount >= opts[p].maxPerHour
       \/ opts[p].maxPerDay > 0 /\ c.dayCount >= opts[p].maxPerDay

Leaving == {"d_release", "d_stop", "d_close", "returned", "exited"}

C9_RateLimitStops ==
    \A p \in Procs :
        /\ pc[p] \in {"build", "invoke", "extract", "record", "save"} => ~Limited(p)
        /\ pc[p] = "save_rl" => Limited(p) /\ finalStatus[p] = "rate_limited"
        /\ finalStatus[p] = "rate_limited" =>
              /\ pc[p] \in Leaving \cup {"save_rl"}
              /\ Limited(p)
              /\ retErr[p] = "nil"
              /\ calls[p] = checked[p].calls
              /\ state[p].Timestamps = checked[p].timestamps
              /\ pc[p] \in Leaving =>
                    /\ stateFile.kind = "json"
                    /\ stateFile.Timestamps = checked[p].timestamps

C9_Witness ==
    \E p \in Procs :
        /\ pc[p] = "returned"
        /\ finalStatus[p] = "rate_limited"
        /\ opts[p].maxPerHour = 1
        /\ opts[p].maxPerDay = 0
        /\ calls[p] = 0
        /\ stateFile.Timestamps = <<T0 - 1800>>

\* C10: after the first runner invocation whose output signals completion
\* the runner is not invoked again in that run, and the run ends with outcome
\* complete and no error.
C10_CompleteStops ==
    \A p \in Procs :
        completeAt[p] > 0 =>
            /\ calls[p] = completeAt[p]
            /\ pc[p] \in Leaving \cup {"extract", "record"}
            /\ pc[p] \in Leaving => finalStatus[p] = "complete" /\ retErr[p] = "nil"

C10_Witness ==
    \E p \in Procs :
        /\ pc[p] = "returned"
        /\ opts[p].maxIterations = MaxIter
        /\ completeAt[p] = 1
        /\ calls[p] = 1
        /\ finalStatus[p] = "complete"

\* C11 (as stated): the runner is invoked at most maxIterations times, and a
\* run that has ended in which no output signalled completion, no admission
\* check stopped it and no input file was unreadable invoked the runner
\* exactly maxIterations times and has outcome max_iterations.
Ended(p) == pc[p] \in {"returned", "exited"}
InputFailed(p) == retErr[p] \in {"prompt", "conventions", "specs"}

C11_ExactlyMaxIterations ==
    \A p \in Runners :
        /\ calls[p] <= opts[p].maxIterations
        /\ (/\ Ended(p)
            /\ completeAt[p] = 0
            /\ finalStatus[p] # "rate_limited"
            /\ ~InputFailed(p))
           => /\ calls[p] = opts[p].maxIterations
              /\ finalStatus[p] = "max_iterations"

\* C11 (amended): the same for a run that acquired the lock and was not
\* asked for a dry run; the bound calls <= maxIterations holds for every run.
C11_ExactlyMaxIterationsNoDryRun ==
    \A p \in Runners :
        /\ calls[p] <= opts[p].maxIterations
        /\ (/\ Ended(p)
            /\ acqErr[p] = "nil"
            /\ ~opts[p].dryRun
            /\ completeAt[p] = 0
            /\ finalStatus[p] # "rate_limited"
            /\ ~InputFailed(p))
           => /\ calls[p] = opts[p].maxIterations
              /\ finalStatus[p] = "max_iterations"

C11_Witness ==
    \E p \in Runners :
        /\ pc[p] = "returned"
        /\ opts[p].maxIterations = MaxIter
        /\ ~opts[p].dryRun
        /\ calls[p] = MaxIter
        /\ completeAt[p] = 0
        /\ finalStatus[p] = "max_iterations"
        /\ retErr[p] = "nil"

\* C12: in a run with outcome complete the completing iteration leaves the
\* timestamps and LastRun alone: the state file is the one the iteration
\* found when it began, which holds the timestamps and LastRun the previous
\* recorded iteration saved, or those loaded at the start of the run; the
\* state in memory holds the same timestamps and LastRun.
C12_CompleteAddsNoTimestamp ==
    \A p \in Runners :
        finalStatus[p] = "complete" =>
            /\ stateFile = checked[p].file
            /\ loadState(stateFile).Timestamps = checked[p].timestamps
            /\ state[p].Timestamps = checked[p].timestamps
            /\ state[p].LastRun = loadState(stateFile).LastRun

C12_Witness ==
    \E p \in Runners :
        /\ pc[p] = "returned"
        /\ finalStatus[p] = "complete"
        /\ calls[p] = 2
        /\ checked[p].now > T0
        /\ stateFile.kind = "json"
        /\ stateFile.Timestamps = <<T0 - 1800, T0>>
        /\ stateFile.LastRun = T0

\* C13: a step appends a timestamp only in an iteration whose admission check
\* let it pass, whose prompt was built and in which the runner was invoked;
\* at every moment the timestamps appended in a run are no more than the
\* runner invocations of that run; and an iteration that ends the run as
\* rate_limited, as dry_run or on an unreadable input file leaves the
\* timestamps as its admission check found them.
C13_TimestampOnlyAfterInvocation ==
    /\ [][\A p \in Runners :
            appended'[p] # appended[p] =>
                /\ appended'[p] = appended[p] + 1
                /\ ~Limited(p)
                /\ prompt[p].iteration = state[p].TotalIterations
                /\ calls[p] = checked[p].calls + 1
                /\ state'[p].Timestamps =
                       pruneOldTimestamps(Append(state[p].Timestamps, now), now)]_vars
    /\ [](\A p \in Runners :
            /\ appended[p] <= calls[p]
            /\ (finalStatus[p] \in {"rate_limited", "dry_run"} \/ InputFailed(p)) =>
                  /\ state[p].Timestamps = checked[p].timestamps
                  /\ calls[p] = checked[p].calls)

C13_Witness ==
    \E p \in Runners :
        /\ pc[p] = "returned"
        /\ retErr[p] = "conventions"
        /\ calls[p] = 1
        /\ appended[p] = 1
        /\ state[p].Timestamps = <<T0>>
        /\ stateFile.Timestamps = <<T0>>

\* C14: no step of any run, in a sequence of runs in one working directory,
\* makes the TotalIterations the state file holds smaller (an absent file and
\* one that is not JSON hold none, which counts as 0).
C14_TotalNeverDecreases ==
    [][stateFile'.TotalIterations >= stateFile.TotalIterations]_vars

C14_Witness ==
    \E p \in Runners :
        /\ runs = 2
        /\ pc[p] = "returned"
        /\ finalStatus[p] = "rate_limited"
        /\ state[p].TotalIterations = 3
        /\ stateFile.TotalIterations = 3

\* C15: in an iteration in which runner.Run returned an error or appendNotes
\* failed, the output still goes through extractNotes (the journal is written
\* when it holds notes) and isComplete; unless the output signals completion
\* the iteration appends its timestamp, saves the state and the loop goes on;
\* the run never ends in such an iteration except with outcome complete.
Failed(p) == runErr[p] \/ noteErr[p]

C15_FailuresDoNotStop ==
    /\ [][\A p \in Runners :
            (Failed(p) /\ pc'[p] # pc[p]) =>
                /\ pc[p] = "extract" =>
                      /\ pc'[p] = "record"
                      /\ extractNotes(output[p]) # <<>> => "notes.write" \in fileOps'[p]
                /\ pc[p] = "record" =>
                      IF isComplete(output[p])
                      THEN finalStatus'[p] = "complete" /\ retErr'[p] = "nil"
                      ELSE /\ pc'[p] = "save"
                           /\ appended'[p] = appended[p] + 1
                /\ pc[p] = "save" =>
                      /\ pc'[p] = "loop"
                      /\ iter'[p] = iter[p] + 1
                      /\ stateFile'.Timestamps = state[p].Timestamps]_vars
    /\ [](\A p \in Runners :
            /\ Failed(p) => pc[p] \in Leaving \cup {"extract", "record", "save"}
            /\ (Failed(p) /\ pc[p] \in Leaving) =>
                  finalStatus[p] = "complete" /\ retErr[p] = "nil")

C15_Witness ==
    \E p \in Runners :
        /\ pc[p] = "save"
        /\ runErr[p]
        /\ noteErr[p]
        /\ ~isComplete(output[p])
        /\ appended[p] = 1
        /\ notesFile = <<>>

\* C16: when the prompt, conventions or specs file cannot be read in an
\* iteration, the run ends there with an error naming that file and no
\* outcome (exit status 1); the runner is not invoked in that iteration, no
\* prompt is built in it, and the timestamps in memory and the state file
\* are those the iteration began with.
C16_UnreadableInputAborts ==
    \A p \in Runners :
        InputFailed(p) =>
            /\ pc[p] \in Leaving
            /\ finalStatus[p] = "unknown"
            /\ calls[p] = checked[p].calls
            /\ state[p].Timestamps = checked[p].timestamps
            /\ stateFile = checked[p].file
            /\ appended[p] = iter[p]
            /\ prompt[p].iteration # state[p].TotalIterations
            /\ pc[p] = "exited" => exit[p] = [how |-> "return", code |-> 1]

C16_Witness ==
    \E p \in Runners :
        /\ pc[p] = "exited"
        /\ retErr[p] = "prompt"
        /\ iter[p] = 1
        /\ calls[p] = 1
        /\ exit[p].code = 1

\* C17: a run whose acquireLock returned an error returns the error
\* "acquiring lock" (exit status 1) and does nothing else: signal.Notify is
\* not called and no listener is started, the runner is not invoked, and the
\* state file and the journal are neither read nor written.
C17_LockFailureDoesNothing ==
    \A p \in Runners :
        acqErr[p] # "nil" =>
            /\ ~locked[p]
            /\ pc[p] \in {"acq_ret", "returned", "exited"}
            /\ pc[p] = "returned" => retErr[p] = "acquiring lock"
            /\ (pc[p] = "exited" /\ exit[p].how = "return") =>
                  retErr[p] = "acquiring lock" /\ exit[p].code = 1
            /\ ~notify[p]
            /\ lpc[p] = "none"
            /\ calls[p] = 0
            /\ fileOps[p] = {}
            /\ stateFile = NoStateFile
            /\ notesFile = <<>>
            /\ state[p] = EmptyState
            /\ releases[p] = 0
            /\ lock = lock0

C17_Witness ==
    \E p \in Runners :
        /\ pc[p] = "exited"
        /\ acqErr[p] = "exists_pid"
        /\ lock0 = PidFile(ForeignPid)
        /\ exit[p] = [how |-> "return", code |-> 1]

\* C18: a run asked for a dry run never gets past its first iteration: the
\* runner is never invoked, nothing is appended to the journal, no timestamp
\* is appended and the state file is not written (except, unchanged
\* timestamps, by a rate-limited exit); and once Build has constructed the
\* prompt the run is over, with outcome dry_run and no error.
C18_DryRunStopsAfterBuild ==
    \A p \in Runners :
        opts[p].dryRun =>
            /\ calls[p] = 0
            /\ iter[p] = 0
            /\ appended[p] = 0
            /\ "notes.write" \notin fileOps[p]
            /\ notesFile = <<>>
            /\ pc[p] \notin {"invoke", "extract", "record", "save"}
            /\ "state.write" \in fileOps[p] => finalStatus[p] = "rate_limited"
            /\ prompt[p] # NoPrompt =>
                  /\ pc[p] \in Leaving
                  /\ finalStatus[p] = "dry_run"
                  /\ retErr[p] = "nil"
                  /\ prompt[p].iteration = state[p].TotalIterations
                  /\ stateFile = checked[p].file
                  /\ state[p].Timestamps = checked[p].timestamps
            /\ finalStatus[p] = "dry_run" => prompt[p] # NoPrompt

C18_Witness ==
    \E p \in Runners :
        /\ pc[p] = "returned"
        /\ opts[p].dryRun
        /\ opts[p].maxIterations = MaxIter
        /\ finalStatus[p] = "dry_run"
        /\ prompt[p].iteration = 2
        /\ stateFile.TotalIterations = 1
        /\ calls[p] = 0

\* C19: the listener that received a signal calls signal.Stop before
\* releaseLock and releaseLock before os.Exit: while it is at or past the
\* release, channel c is not registered; its release step, failed or not, takes
\* it to os.Exit; the process is ended by os.Exit only from there, after a
\* release was attempted; and a listener that received a signal leads to the
\* end of the process, also when the release failed.
Received(p) == lpc[p] \in {"l_stop", "l_close", "l_release", "l_exit"}

C19_StopReleaseExit ==
    /\ [](\A p \in Runners :
            /\ lpc[p] \in {"l_close", "l_release", "l_exit"} => ~notify[p]
            /\ lpc[p] \in {"l_stop", "l_close"} =>
                  (releases[p] = 0 \/ pc[p] \in {"d_stop", "d_close", "returned"})
            /\ lpc[p] = "l_exit" => releases[p] >= 1)
    /\ [][\A p \in Runners :
            /\ (lpc[p] = "l_release" /\ lpc'[p] \notin {"l_release", "dead"}) =>
                  /\ lpc'[p] = "l_exit"
                  /\ releases'[p] = releases[p] + 1
                  /\ lock' = Absent \/ relFailed'[p]
            /\ (exit'[p].how = "os.Exit" /\ exit[p].how # "os.Exit") =>
                  /\ lpc[p] = "l_exit"
                  /\ exit'[p].code = ExitCode(lsig[p])]_vars
    /\ \A p \in Runners : Received(p) ~> (pc[p] = "exited")

C19_Witness ==
    \E p \in Runners :
        /\ pc[p] = "exited"
        /\ exit[p] = [how |-> "os.Exit", code |-> 143]
        /\ relFailed[p]
        /\ releases[p] = 1
        /\ lock = Written(p)

\* C20: a process the listener ends with os.Exit has exit status 130 when the
\* signal received was SIGINT and 143 when it was SIGTERM; the two differ and
\* neither is 1, the status of a run that returned an error.
C20_SignalExitCodes ==
    /\ ExitCode("SIGINT") # ExitCode("SIGTERM")
    /\ \A p \in Runners :
          /\ exit[p].how = "os.Exit" =>
                /\ lsig[p] \in Signals
                /\ lsig[p] = "SIGINT" => exit[p].code = 130
                /\ lsig[p] = "SIGTERM" => exit[p].code = 143
                /\ exit[p].code # 1
          /\ exit[p].how = "return" =>
                exit[p].code = IF retErr[p] = "nil" THEN 0 ELSE 1

C20_Witness ==
    \E p \in Runners :
        /\ pc[p] = "exited"
        /\ lsig[p] = "SIGINT"
        /\ sigs[p] = 2
        /\ exit[p] = [how |-> "os.Exit", code |-> 130]
        /\ lock = Absent

\* C21: a releaseLock call that finds no lock file returns no error and
\* leaves the file absent; and a releaseLock call that follows a call that
\* returned no error finds the file absent, so it leaves it absent and
\* returns no error as well: two calls leave what one call leaves.
Released(p) == releases[p] >= 1 /\ ~relFailed[p]

C21_ReleaseIdempotent ==
    /\ [](\A p \in Procs : Released(p) => lock = Absent)
    /\ [][\A p \in Procs :
            releases'[p] # releases[p] =>
                /\ lock = Absent => (lock' = Absent /\ ~relFailed'[p])
                /\ (\E q \in Procs : Released(q)) => (lock' = lock /\ ~relFailed'[p])
                /\ ~relFailed'[p] => lock' = Absent
                /\ relFailed'[p] => lock' = lock]_vars

C21_Witness ==
    \E p \in Procs :
        /\ lock0 = PidFile(StalePid)
        /\ releases[p] = 2
        /\ ~relFailed[p]
        /\ \A q \in Procs \ {p} : releases[q] = 0
        /\ lock = Absent

\* C22: for every owner pid a lock file may hold, isProcessRunning is false
\* exactly when the probe answers ESRCH; acquireLock goes on to remove the
\* file only for such a pid, and for an owner whose probe answers anything
\* else (success, EPERM, another error) every call is refused with the
\* "lock file exists (pid)" error and the file stays as it was.
Dead(n) == Kill0(n) = "ESRCH"

C22_DeadOnlyWhenNotFound ==
    /\ \A n \in OwnerIds : isProcessRunning(n) = ~Dead(n)
    /\ \A p \in Procs :
          /\ pc[p] = "acq_remove" => Dead(pid[p])
          /\ acqErr[p] = "exists_pid" => ~Dead(pid[p])
    /\ ~Dead(lock0.pid) =>
          /\ lock = lock0
          /\ \A p \in Procs :
                /\ ~locked[p]
                /\ pc[p] = "acq_ret" => acqErr[p] = "exists_pid"

C22_Witness ==
    /\ lock0 = PidFile(OtherErrPid)
    /\ \A p \in Procs : pc[p] = "acq_ret" /\ acqErr[p] = "exists_pid" /\ ~locked[p]
    /\ lock = lock0

\* C23: countRecentIterations returns as hourCount the number of timestamps
\* that are not more than 60 minutes before now, and as dayCount the number
\* that are not more than 24 hours before now: a timestamp exactly 60
\* minutes (24 hours) before now is counted.
InWindow(ts, t, w) == {k \in 1..Len(ts) : ts[k] >= t - w}

C23_CountsIncludeEdge ==
    call.fn = "countRecentIterations" =>
        /\ call.hourCount = Cardinality(InWindow(call.ts, call.t, Hour))
        /\ call.dayCount = Cardinality(InWindow(call.ts, call.t, Day))

\* C24: the hourCount countRecentIterations returns is never larger than
\* its dayCount, whatever the list: empty, with duplicates, with timestamps
\* after now.
C24_HourAtMostDay ==
    call.fn = "countRecentIterations" => call.hourCount <= call.dayCount

C24_Witness ==
    /\ call.fn = "countRecentIterations"
    /\ call.ts = <<T0 + 60, T0 - 1800, T0 - 1800>>
    /\ call.t = T0
    /\ call.hourCount = 3
    /\ call.dayCount = 3

\* C25: pruneOldTimestamps keeps, in their order, exactly the timestamps that
\* are not more than 24 hours before now (it removes those older than 24
\* hours and no other), and the entries it keeps are as many as
\* countRecentIterations counts in dayCount.
NotOlder(ts, t) ==
    LET Keep(x) == x >= t - Day IN SelectSeq(ts, Keep)

C25_PruneRemovesOnlyOlder ==
    call.fn = "pruneOldTimestamps" =>
        /\ call.kept = NotOlder(call.ts, call.t)
        /\ Len(call.kept) = countRecentIterations(call.ts, call.t).dayCount

\* C26: extractNotes returns the text between the first <ralph_notes> tag and
\* the first </ralph_notes> tag after it, without the whitespace at its two
\* ends, and the empty string when there is no opening tag or no closing tag
\* after the first opening tag.
FirstAt(out, tag, from) ==
    IF \E k \in from..Len(out) : out[k] = tag
    THEN CHOOSE k \in from..Len(out) :
            out[k] = tag /\ \A m \in from..(k - 1) : out[m] # tag
    ELSE 0

Trimmed(x) ==
    LET Ink == {k \in 1..Len(x) : ~IsSpace(x[k])}
    IN IF Ink = {} THEN <<>>
       ELSE SubSeq(x, CHOOSE k \in Ink : \A m \in Ink : k <= m,
                      CHOOSE k \in Ink : \A m \in Ink : k >= m)

FirstNotesSpan(out) ==
    LET a == FirstAt(out, "<ralph_notes>", 1)
        b == IF a = 0 THEN 0 ELSE FirstAt(out, "</ralph_notes>", a + 1)
    IN IF a = 0 \/ b = 0 THEN <<>> ELSE Trimmed(SubSeq(out, a + 1, b - 1))

C26_NotesOfFirstSpan ==
    call.fn = "extractNotes" => call.notes = FirstNotesSpan(call.out)

C26_Witness ==
    /\ call.fn = "extractNotes"
    /\ call.out = <<"<ralph_notes>", "\n", "INCOMPLETE", "\n", "</ralph_notes>">>
    /\ call.notes = <<"INCOMPLETE">>

\* C27: isComplete is true exactly when the output holds an opening
\* <ralph_status> tag and, after it, a closing tag such that the text between
\* the two, without the whitespace at its ends and read without regard to
\* letter case, is the one word COMPLETE.
Lower(w) == IF w \in {"COMPLETE", "Complete"} THEN "complete" ELSE w

HasCompleteSpan(out) ==
    \E a \in 1..Len(out), b \in 1..Len(out) :
        /\ a < b
        /\ out[a] = "<ralph_status>"
        /\ out[b] = "</ralph_status>"
        /\ LET inner == Trimmed(SubSeq(out, a + 1, b - 1))
           IN Len(inner) = 1 /\ Lower(inner[1]) = "complete"

C27_CompleteIffSpan ==
    call.fn = "isComplete" => call.complete = HasCompleteSpan(call.out)

C27_Witness ==
    /\ call.fn = "isComplete"
    /\ call.out = <<"<ralph_status>", "\n", "Complete", "\n", "</ralph_status>">>
    /\ call.complete

\* C28: no step shortens the notes journal or changes a section it already
\* holds; a step grows it by at most one section; and a call of appendNotes
\* that returns no error adds exactly one section, the last, which carries
\* the number of the iteration and the extracted note text.
Appends(p) ==
    /\ pc[p] = "extract"
    /\ pc'[p] = "record"
    /\ FirstNotesSpan(output[p]) # <<>>
    /\ ~noteErr'[p]

C28_JournalAppendOnly ==
    [][/\ Len(notesFile') >= Len(notesFile)
       /\ Len(notesFile') <= Len(notesFile) + 1
       /\ SubSeq(notesFile', 1, Len(notesFile)) = notesFile
       /\ \A p \in Procs :
            Appends(p) =>
                /\ Len(notesFile') = Len(notesFile) + 1
                /\ notesFile'[Len(notesFile')].iteration = state[p].TotalIterations
                /\ notesFile'[Len(notesFile')].text = FirstNotesSpan(output[p])]_vars

C28_Witness ==
    /\ Len(notesFile) = 3
    /\ notesFile[1].iteration = 1
    /\ notesFile[2].iteration = 2
    /\ notesFile[3].iteration = 3
    /\ notesFile[3].text = <<"hello">>

\* C29: two runs that have ended by returning, with different outcomes
\* (complete, rate_limited, max_iterations, dry_run, or fatal for a returned
\* error), never have the same exit code together with the same standard
\* output.
Outcome(p) == IF retErr[p] # "nil" THEN "fatal" ELSE finalStatus[p]

Observed(p) == [code |-> exit[p].code, out |-> stdout[p]]

Finished(p) == pc[p] = "exited" /\ exit[p].how = "return"

C29_OutcomeDeterminable ==
    \A p \in Procs, q \in Procs :
        Finished(p) /\ Finished(q) /\ Outcome(p) # Outcome(q)
            => Observed(p) # Observed(q)

C29_LoudOutcomeDeterminable ==
    \A p \in Procs, q \in Procs :
        (/\ Finished(p) /\ Finished(q) /\ Outcome(p) # Outcome(q)
         /\ ~opts[p].quiet /\ ~opts[q].quiet)
            => Observed(p) # Observed(q)

\* C30: a run started by the manual command without a --max-iterations flag
\* invokes the runner at most once, whatever max_iterations the
\* configuration holds.
C30_ManualRunsOnce ==
    \A p \in Procs :
        (cli[p].command = "manual" /\ cli[p].flag = -1) => calls[p] <= 1

\* C31: the notes part of every prompt a run has built holds no more than
\* the one journal section written last before it, and the placeholder
\* "No notes yet." when it holds no section.
C31_PromptHasLastNotesOnly ==
    \A p \in Procs :
        prompt[p] # NoPrompt =>
            /\ Len(prompt[p].notes.sections) <= 1
            /\ prompt[p].notes.sections = <<>> => prompt[p].notes.text = "No notes yet."

\* C32: when every run in the working directory is given the same limit
\* maxPerHour = n > 0, the runs together invoke the runner at most n times
\* within one hour (here the clock stands still, so every invocation falls
\* in one window).
C32_AtMostNPerHour ==
    \A n \in 1..MaxRate :
        (\A p \in Callers : opts[p].maxPerHour = n) => calls[1] + calls[2] <= n

\* C33: once the command has started its run, the run's maxPerHour is the
\* value of the --max-per-hour flag when the flag is given, 0 included, and
\* the configured max_per_hour when it is not; maxPerDay likewise.
Started(p) == cli[p].command # "none" /\ pc[p] # "cmd"

C33_FlagOverridesConfig ==
    \A p \in Procs :
        Started(p) =>
            /\ opts[p].maxPerHour = IF cli[p].flagPerHour # -1 THEN cli[p].flagPerHour
                                    ELSE cli[p].configPerHour
            /\ opts[p].maxPerDay = IF cli[p].flagPerDay # -1 THEN cli[p].flagPerDay
                                   ELSE cli[p].configPerDay

\* C34: a call ConfigSet(key, value) with an unknown key, or with an integer
\* key and a value that is not a decimal number, returns an error and leaves
\* the configuration file as it was; any other call that returns no error
\* makes LoadConfig return the value for the key and what it returned before
\* for every other key; a call that returns an error changes nothing.
IsNumber(value) == Len(value) >= 1 /\ \A k \in 1..Len(value) : value[k] \in Digits

NumberOf(value) ==
    IF Len(value) = 1 THEN DigitValue(value[1])
    ELSE 10 * DigitValue(value[1]) + DigitValue(value[2])

C34_ConfigSetFrame ==
    call.fn = "ConfigSet" =>
        IF call.key \notin Keys \/ (call.key \in IntKeys /\ ~IsNumber(call.value))
        THEN call.err /\ configFile = call.before
        ELSE IF call.err THEN configFile = call.before
        ELSE /\ LoadConfig(configFile)[call.key] =
                    IF call.key \in IntKeys THEN NumberOf(call.value) ELSE call.value
             /\ \A k \in Keys \ {call.key} :
                    LoadConfig(configFile)[k] = LoadConfig(call.before)[k]

Occurrences(s, v) == Cardinality({i \in DOMAIN s : s[i] = v})

Unsaved(p) ==
    {<<v, k>> \in {state[p].Timestamps[i] : i \in DOMAIN state[p].Timestamps}
                      \X (1..Len(state[p].Timestamps)) :
        /\ k <= Occurrences(state[p].Timestamps, v)
        /\ k > Occurrences(stateFile.Timestamps, v)}

\* C36: at every point of a run the timestamp list in memory holds at most
\* one timestamp that the persisted state file does not hold, so a process
\* killed at any point loses at most one timestamp.
C36_AtMostOneUnsaved ==
    \A p \in Runners : Cardinality(Unsaved(p)) <= 1

C36_Witness ==
    \E p \in Runners :
        /\ pc[p] = "save"
        /\ Len(state[p].Timestamps) = 2
        /\ Len(stateFile.Timestamps) = 1
        /\ Cardinality(Unsaved(p)) = 1

C37_Witness ==
    \E p \in Procs :
        /\ pc[p] = "acq_ret"
        /\ attempts[p] = 2
        /\ acqErr[p] = "unable"
        /\ ~locked[p]

\* C37: every acquireLock call makes at most two create-if-absent attempts,
\* whatever concurrent acquirers do: a create attempt is made only as the
\* first or the second of the call, every way back to the head of the loop
\* counts as one attempt, and a call whose second attempt also found a lock
\* with a dead owner (and removed it) ends with the 'unable to acquire' error
\* and without the lock instead of trying again.
C37_AtMostTwoAttempts ==
    /\ [][\A p \in Procs :
            /\ (pc[p] = "acq_open" /\ pc'[p] \in {"acq_write", "acq_read"}) =>
                   attempts[p] < 2
            /\ (pc[p] # "acq_open" /\ pc'[p] = "acq_open") =>
                   /\ pc[p] = "acq_remove"
                   /\ attempts'[p] = attempts[p] + 1
            /\ (pc[p] = "acq_open" /\ attempts[p] = 2 /\ pc'[p] # "acq_open") =>
                   \/ pc'[p] = "exited"
                   \/ /\ pc'[p] = "acq_ret"
                      /\ acqErr'[p] = "unable"
                      /\ ~locked'[p]
                      /\ lock' = lock]_vars
    /\ [](\A p \in Procs : attempts[p] <= 2)

\* C38: within an iteration the notes are journaled before the completion
\* decision: when a step ends the run with outcome complete and the output of
\* the iteration holds a non-empty notes block whose append did not fail, the
\* journal already ends with the section of this iteration holding these
\* notes, and the step leaves the journal alone; the journal grows only in
\* the extraction step of an iteration whose extracted notes are non-empty,
\* by one section; and an iteration reaches its extraction step once, from
\* the runner invocation.
C38_NotesBeforeCompletion ==
    [][/\ \A p \in Procs :
            /\ (finalStatus[p] # "complete" /\ finalStatus'[p] = "complete") =>
                   /\ notesFile' = notesFile
                   /\ pc[p] = "record"
                   /\ (FirstNotesSpan(output[p]) # <<>> /\ ~noteErr[p]) =>
                          /\ notesFile # <<>>
                          /\ notesFile[Len(notesFile)].iteration = state[p].TotalIterations
                          /\ notesFile[Len(notesFile)].text = FirstNotesSpan(output[p])
            /\ (pc[p] # "extract" /\ pc'[p] = "extract") =>
                   /\ pc[p] = "invoke"
                   /\ calls'[p] = calls[p] + 1
       /\ notesFile' # notesFile =>
              /\ Len(notesFile') = Len(notesFile) + 1
              /\ \E p \in Procs :
                     /\ pc[p] = "extract"
                     /\ pc'[p] = "record"
                     /\ FirstNotesSpan(output[p]) # <<>>]_vars

C38_Witness ==
    \E p \in Procs :
        /\ finalStatus[p] = "complete"
        /\ pc[p] = "returned"
        /\ FirstNotesSpan(output[p]) # <<>>
        /\ HasCompleteSpan(output[p])
        /\ Len(notesFile) = 2
        /\ notesFile[2].iteration = state[p].TotalIterations
        /\ notesFile[2].text = FirstNotesSpan(output[p])

\* C39: no process deletes a lock file whose recorded owner is a different
\* live process: a step in which process p removes a stale lock inside
\* acquireLock, or releases the lock on return or on a signal, leaves the
\* lock file alone when it holds the pid of a live process other than p.
C39_NoForeignLockDeleted ==
    [][\A p \in Procs :
          (/\ \/ pc[p] = "acq_remove" /\ pc'[p] = "acq_open"
              \/ releases'[p] # releases[p]
           /\ lock.kind = "int"
           /\ lock.pid \in alive \ {p}) =>
              lock' = lock]_vars

\* C40: in every prompt a run builds, the line 'Iteration: N of M' has
\* 1 <= N <= M, where M is the maxIterations of the run, whatever persisted
\* state the run started from.
C40_IterationWithinMax ==
    \A p \in Procs :
        prompt[p] # NoPrompt =>
            /\ prompt[p].maxIterations = opts[p].maxIterations
            /\ 1 <= prompt[p].iteration
            /\ prompt[p].iteration <= prompt[p].maxIterations
====
